---- MODULE Spec2Model ----
(***************************************************************************)
(* Crypt-Arbitrage: the notification gate (src/notifications), the two     *)
(* detection engines (src/analyzers), the price-tick store they read, the  *)
(* FX rate service (src/services), the collectors (src/collectors) and     *)
(* the policy file the operator edits (scripts/manage_notifications.py).   *)
(*                                                                         *)
(* Units.  The clock `now` counts 30 s.  Prices    are integers (one unit  *)
(* is 10,000 JPY, so 1000 stands for 10,000,000 JPY); sizes count tenths   *)
(* of a coin; fee rates and detector thresholds count basis points         *)
(* (1e-4); an absolute profit counts 1e-4 price units.  The code computes  *)
(* with decimal.Decimal (28 significant digits) and compares the results   *)
(* with thresholds; on the modelled magnitudes those comparisons are the   *)
(* comparisons of the exact rationals, done here by cross-multiplication.  *)
(***************************************************************************)
EXTENDS Integers, Sequences, FiniteSets, TLC

VARIABLES
    now,                          \* datetime.now(), in clock units of 30 s
    webhook_url,                  \* DiscordNotifier.webhook_url is configured
    config,                       \* notification_config.config
    last_arbitrage_notification,  \* NotificationManager: pair_key -> time
    hourly_notification_count,    \* NotificationManager: deque(maxlen=100)
    notification_history,         \* NotificationManager: deque(maxlen=1000)
    emits,                        \* the successful emits, in order (observer)
    last_call,                    \* the last send_arbitrage_alert call (observer)
    price_ticks,                  \* table price_ticks
    arbitrage_opportunities,      \* table arbitrage_opportunities
    engine,                       \* thresholds and fees the analyzers loaded
    notified_opportunities,       \* AdvancedArbitrageAnalyzer: key -> time
    pending,                      \* _notify_opportunities: still to go through
    cycle,                        \* the last detection cycle (observer)
    fx,                           \* fx_service: rates, last_update, session
    sessions,                     \* every aiohttp.ClientSession created
    adapters,                     \* the exchange clients and their sessions
    pc,                           \* where each coroutine is waiting
    fx_good,                      \* the rate last fetched (observer)
    last_get_rate,                \* the last get_rate return (observer)
    last_refresh,                 \* the last update_rates begun (observer)
    collector,                    \* DataCollector: config, exchanges, running
    scheduler,                    \* AsyncIOScheduler: the running job instances
    orderbook_snapshots,          \* table orderbook_snapshots
    last_fire,                    \* the last firing of a job (observer)
    last_cycle,                   \* the last job instance that ended (observer)
    op_results,                   \* what the trading calls made so far gave
    config_file,                  \* config/notifications.json on disk
    last_system,                  \* the last send_system_alert call (observer)
    last_clear,                   \* the last clear_old_records call (observer)
    probe,                        \* the last NotificationConfig query (observer)
    last_save                     \* the last collect_price_data call (observer)

gate_vars == <<webhook_url, config, last_arbitrage_notification,
               hourly_notification_count, notification_history, emits, last_call>>

detect_vars == <<price_ticks, arbitrage_opportunities, engine,
                 notified_opportunities, pending, cycle>>

fx_vars == <<fx, sessions, adapters, pc, fx_good, last_get_rate, last_refresh>>

col_vars == <<collector, scheduler, orderbook_snapshots, last_fire, last_cycle>>

policy_vars == <<config_file, last_system, last_clear, probe, last_save>>

io_vars == <<fx_vars, col_vars, op_results, policy_vars>>

----------------------------------------------------------------------------
(* Bounds of the exploration *)

MaxNow == 132
MaxEmits == 2
MaxCapEmits == 102
MaxTicks == 3                 \* rows of price_ticks
MaxCycleTicks == 4            \* rows of price_ticks, two pairs being quoted
MaxDetectNow == 11            \* last clock instant of the detection runs
MaxTasks == 2                 \* coroutines a client gathers
MaxSessions == 4              \* ClientSessions created
MaxFxNow == 12                \* last clock instant of the FX runs
MaxFires == 3                 \* firings of the two jobs
MaxCollectNow == 1            \* last clock instant of the collector runs
MaxOperations == 2            \* distinct trading calls made
MaxSystemNow == 1440          \* last clock instant of the system-alert runs
MaxSystemAlerts == 2          \* system alerts recorded in the history
MaxStoreNow == 2              \* last clock instant of the store runs
MaxStoreTicks == 3            \* rows of price_ticks in the store runs

(* Program constants *)

HourlyMaxLen == 100
HistoryMaxLen == 1000
HttpNoContent == 204

(* Time: one clock unit is 30 s *)

UnitsPerMinute == 2
Minutes(m) == m * UnitsPerMinute
Hours(h) == Minutes(60 * h)
MinutesPerDay == 24 * 60

----------------------------------------------------------------------------
(* Python helpers *)

\* dict.get(key, default)
Get(d, k, default) == IF k \in DOMAIN d THEN d[k] ELSE default

\* collections.deque(maxlen=n).append(x): the oldest entry falls out
DequeAppend(q, x, maxlen) ==
    IF Len(q) < maxlen THEN Append(q, x)
    ELSE Append(SubSeq(q, 2, Len(q)), x)

\* Rationals n/d (d > 0) stand for the Decimal and float values; a/b < c/d is
\* decided on the continued fractions, so that no product leaves 32 bits.
RECURSIVE FracLess(_, _, _, _)
FracLess(a, b, c, d) ==
    LET q1 == a \div b
        q2 == c \div d
        r1 == a % b
        r2 == c % d
    IN  IF q1 # q2 THEN q1 < q2
        ELSE IF r2 = 0 THEN FALSE
        ELSE IF r1 = 0 THEN TRUE
        ELSE FracLess(d, r2, b, r1)

Rat(n, d) == [n |-> n, d |-> d]
RatLess(x, y) == FracLess(x.n, x.d, y.n, y.d)
RatEq(x, y) == ~RatLess(x, y) /\ ~RatLess(y, x)
RatPositive(x) == x.n > 0

\* a percentage given in basis points (1/100 percent)
PctBps(bps) == Rat(bps, 100)

----------------------------------------------------------------------------
(* NotificationConfig *)

IsArbitrageNotificationEnabled ==
    config.arbitrage_alerts.enabled /\ config.discord.enabled

GetArbitrageThreshold == config.arbitrage_alerts.min_profit_threshold
GetArbitrageAmountThreshold == config.arbitrage_alerts.min_profit_amount
GetNotificationCooldown == config.arbitrage_alerts.cooldown_minutes
GetMaxNotificationsPerHour == config.arbitrage_alerts.max_notifications_per_hour

\* A time of day "HH:MM" is the sequence of its characters: a digit is its
\* value and the colon, which follows the digits in ASCII, is 10.
HHMM(h, m) == <<h \div 10, h % 10, 10, m \div 10, m % 10>>

\* str < str and str <= str of Python: character by character, a proper
\* prefix being the smaller
RECURSIVE StrLess(_, _)
StrLess(s, u) ==
    IF u = <<>> THEN FALSE
    ELSE IF s = <<>> THEN TRUE
    ELSE IF Head(s) # Head(u) THEN Head(s) < Head(u)
    ELSE StrLess(Tail(s), Tail(u))

StrLeq(s, u) == s = u \/ StrLess(s, u)

\* the minute of the day the clock reading t falls in
MinuteOfDay(t) == (t \div UnitsPerMinute) % MinutesPerDay

\* a clock printed without the leading zero of the hour: "%-H:%M"
CurrentTimeUnpadded(t) ==
    LET h == MinuteOfDay(t) \div 60
        m == MinuteOfDay(t) % 60
    IN  IF h < 10 THEN <<h, 10, m \div 10, m % 10>> ELSE HHMM(h, m)

\* now.strftime("%H:%M")
CurrentTime(t) == HHMM(MinuteOfDay(t) \div 60, MinuteOfDay(t) % 60)

IsQuietHours(t) ==
    LET quiet_config == config.discord.quiet_hours
        current_time == CurrentTime(t)
        start_time == quiet_config.start
        end_time == quiet_config.end
    IN  IF ~quiet_config.enabled THEN FALSE
        ELSE IF StrLeq(start_time, end_time)
             THEN StrLeq(start_time, current_time) /\ StrLeq(current_time, end_time)
             ELSE StrLeq(start_time, current_time) \/ StrLeq(current_time, end_time)

\* a gate that wants the thresholds exceeded, not merely met
ShouldSendAboveThresholds(profit_pct, profit_amount, t) ==
    IF ~IsArbitrageNotificationEnabled THEN FALSE
    ELSE IF IsQuietHours(t) THEN FALSE
    ELSE IF ~RatLess(GetArbitrageThreshold, profit_pct) THEN FALSE
    ELSE IF profit_amount <= GetArbitrageAmountThreshold THEN FALSE
    ELSE TRUE

ShouldSendArbitrageNotification(profit_pct, profit_amount, t) ==
    IF ~IsArbitrageNotificationEnabled THEN FALSE
    ELSE IF IsQuietHours(t) THEN FALSE
    ELSE IF RatLess(profit_pct, GetArbitrageThreshold) THEN FALSE
    ELSE IF profit_amount < GetArbitrageAmountThreshold THEN FALSE
    ELSE TRUE

----------------------------------------------------------------------------
(* DiscordNotifier *)

WebhookResponses == {204, 200, 500, 0}   \* 0: requests.post raised

\* a notifier that takes every 2xx answer for a success
SendMessageResultAny2xx(resp) == webhook_url /\ resp \in 200..299

\* send_message: True iff a URL is configured and the POST answered 204
SendMessageResult(resp) == webhook_url /\ resp = HttpNoContent

\* send_message makes a POST iff a URL is configured
SendMessagePosts == webhook_url

----------------------------------------------------------------------------
(* NotificationManager *)

PairKey(arbitrage_data) ==
    <<Get(arbitrage_data, "pair_symbol", ""),
      Get(arbitrage_data, "buy_exchange", ""),
      Get(arbitrage_data, "sell_exchange", "")>>

\* a gate that ignores last_arbitrage_notification
IsCooldownActiveMutNever(pair_key, t) == FALSE

IsCooldownActive(pair_key, t) ==
    IF pair_key \notin DOMAIN last_arbitrage_notification THEN FALSE
    ELSE LET cooldown_delta == Minutes(GetNotificationCooldown)
         IN  t - last_arbitrage_notification[pair_key] < cooldown_delta

IsHourlyLimitReached(t) ==
    LET one_hour_ago == t - Hours(1)
        recent_notifications ==
            {i \in 1..Len(hourly_notification_count) :
                hourly_notification_count[i] > one_hour_ago}
    IN  Cardinality(recent_notifications) >= GetMaxNotificationsPerHour

\* _update_notification_records, run at clock reading t
UpdateNotificationRecords(pair_key, t) ==
    /\ last_arbitrage_notification' =
           [k \in DOMAIN last_arbitrage_notification \cup {pair_key} |->
               IF k = pair_key THEN t ELSE last_arbitrage_notification[k]]
    /\ hourly_notification_count' =
           DequeAppend(hourly_notification_count, t, HourlyMaxLen)
    /\ notification_history' =
           DequeAppend(notification_history,
                       [timestamp |-> t, type |-> "arbitrage", pair_key |-> pair_key],
                       HistoryMaxLen)

NoRecords ==
    UNCHANGED <<last_arbitrage_notification, hourly_notification_count,
                notification_history>>

\* a gate that records every call, sent or dropped
RecordsEmitAlways(posted, success) == TRUE

\* a gate that records every POST it makes, answered 204 or not
RecordsEmitOnAnyPost(posted, success) == posted

\* `if success:` - the records are updated only for a successful send
RecordsEmit(posted, success) == success

\* What send_arbitrage_alert decides at clock reading t, before any POST
GateDecision(arbitrage_data, t) ==
    LET profit_pct == Get(arbitrage_data, "profit_pct", Rat(0, 1))
        profit_amount == Get(arbitrage_data, "profit", 0)
        pair_key == PairKey(arbitrage_data)
    IN  IF ~ShouldSendArbitrageNotification(profit_pct, profit_amount, t)
        THEN "skip_threshold"
        ELSE IF IsCooldownActive(pair_key, t) THEN "skip_cooldown"
        ELSE IF IsHourlyLimitReached(t) THEN "skip_hourly"
        ELSE "send"

\* send_arbitrage_alert(arbitrage_data), the webhook answering resp.  The POST
\* is bounded by its 10 s timeout, below the resolution of the clock: the
\* checks and the records read the same clock value.
SendArbitrageAlertCall(arbitrage_data, resp) ==
    LET decision == GateDecision(arbitrage_data, now)
        pair_key == PairKey(arbitrage_data)
        posted == decision = "send" /\ SendMessagePosts
        success == decision = "send" /\ SendMessageResult(resp)
    IN  /\ emits' = IF success
                    THEN Append(emits, [time |-> now, key |-> pair_key,
                                        data |-> arbitrage_data])
                    ELSE emits
        /\ IF RecordsEmit(posted, success)
           THEN UpdateNotificationRecords(pair_key, now)
           ELSE NoRecords
        /\ last_call' = [seq |-> 1 - last_call.seq, data |-> arbitrage_data,
                         decision |-> decision, posted |-> posted,
                         resp |-> IF posted THEN resp ELSE 0,
                         result |-> success]
        /\ UNCHANGED <<webhook_url, config>>

SystemAlertTypes == {"ERROR", "WARNING", "INFO"}

\* a manager that holds back every system alert during quiet hours
SystemAlertDecisionQuietForAll(alert_type, t) ==
    LET system_config == config.system_alerts
        enabled_types == system_config.alert_types
    IN  IF ~system_config.enabled THEN "skip_disabled"
        ELSE IF alert_type \notin enabled_types THEN "skip_type"
        ELSE IF IsQuietHours(t) THEN "skip_quiet"
        ELSE "send"

\* What send_system_alert decides at clock reading t, before any POST
SystemAlertDecision(alert_type, t) ==
    LET system_config == config.system_alerts
        enabled_types == system_config.alert_types
    IN  IF ~system_config.enabled THEN "skip_disabled"
        ELSE IF alert_type \notin enabled_types THEN "skip_type"
        ELSE IF alert_type # "ERROR" /\ IsQuietHours(t) THEN "skip_quiet"
        ELSE "send"

\* send_system_alert(alert_type, message), the webhook answering resp
SendSystemAlertCall(alert_type, resp) ==
    LET decision == SystemAlertDecision(alert_type, now)
        posted == decision = "send" /\ SendMessagePosts
        success == decision = "send" /\ SendMessageResult(resp)
    IN  /\ notification_history' =
               IF success
               THEN DequeAppend(notification_history,
                                [timestamp |-> now, type |-> "system",
                                 alert_type |-> alert_type],
                                HistoryMaxLen)
               ELSE notification_history
        /\ last_system' = [seq |-> 1 - last_system.seq, at |-> now,
                           alert_type |-> alert_type, decision |-> decision,
                           posted |-> posted, result |-> success]
        /\ UNCHANGED <<webhook_url, config, last_arbitrage_notification,
                       hourly_notification_count, emits, last_call>>

\* clear_old_records, run at clock reading t
ClearOldRecordsCall(t) ==
    LET one_day_ago == t - Hours(24)
        one_hour_ago == t - Hours(1)
        kept == {pair \in DOMAIN last_arbitrage_notification :
                    last_arbitrage_notification[pair] > one_hour_ago}
        IsRecent(notif) == notif.timestamp > one_day_ago
    IN  /\ notification_history' = SelectSeq(notification_history, IsRecent)
        /\ last_arbitrage_notification' =
               [pair \in kept |-> last_arbitrage_notification[pair]]
        /\ last_clear' = [seq |-> 1 - last_clear.seq,
                          removed |-> DOMAIN last_arbitrage_notification \ kept]
        /\ UNCHANGED <<webhook_url, config, hourly_notification_count, emits,
                       last_call>>

----------------------------------------------------------------------------
(* scripts/manage_notifications.py: the operator's CLI, a process of its    *)
(* own, loads the policy file, changes one setting and saves the file      *)

EnableArbitrageNotifications(file, enabled) ==
    [file EXCEPT !.arbitrage_alerts.enabled = enabled]

UpdateArbitrageSettings(file, key, value) ==
    IF key \in {"min_profit_threshold", "min_profit_amount",
                "cooldown_minutes", "max_notifications_per_hour"}
    THEN [file EXCEPT !.arbitrage_alerts[key] = value]
    ELSE file

SetQuietHours(file, start_time, end_time, enabled) ==
    [file EXCEPT !.discord.quiet_hours =
        [enabled |-> enabled, start |-> start_time, end |-> end_time]]

\* one run of the CLI with the option given; save_config writes the file
ManageNotificationsCall(option, value) ==
    /\ config_file' =
           CASE option = "enable" -> EnableArbitrageNotifications(config_file, TRUE)
             [] option = "disable" -> EnableArbitrageNotifications(config_file, FALSE)
             [] option = "threshold" ->
                    UpdateArbitrageSettings(config_file, "min_profit_threshold", value)
             [] option = "amount" ->
                    UpdateArbitrageSettings(config_file, "min_profit_amount", value)
             [] option = "cooldown" ->
                    UpdateArbitrageSettings(config_file, "cooldown_minutes", value)
             [] option = "quiet" ->
                    SetQuietHours(config_file, value[1], value[2], TRUE)
    /\ UNCHANGED <<last_system, last_clear, probe, last_save>>

----------------------------------------------------------------------------
(* Sequences and orders *)

RECURSIVE FlattenSeq(_)
FlattenSeq(ss) ==
    IF ss = <<>> THEN <<>> ELSE Head(ss) \o FlattenSeq(Tail(ss))

\* the orders in which a finite set can be listed
Perms(S) ==
    {f \in [1..Cardinality(S) -> S] :
        \A i, j \in 1..Cardinality(S) : i # j => f[i] # f[j]}

Pos(ord, x) == CHOOSE i \in DOMAIN ord : ord[i] = x

\* S listed in the order tie lists its elements
ListInOrder(S, tie) ==
    CHOOSE s \in Perms(S) :
        \A i, j \in 1..Cardinality(S) : i < j => Pos(tie, s[i]) < Pos(tie, s[j])

\* the keys of rows listed by rows[x].timestamp descending, equal timestamps
\* in the order tie lists them
ListByTimestampDesc(rows, tie) ==
    CHOOSE s \in Perms(DOMAIN rows) :
        \A i, j \in 1..Cardinality(DOMAIN rows) :
            i < j => \/ rows[s[i]].timestamp > rows[s[j]].timestamp
                     \/ /\ rows[s[i]].timestamp = rows[s[j]].timestamp
                        /\ Pos(tie, s[i]) < Pos(tie, s[j])

\* a loop that pairs an entry with itself too: for j in range(i, n)
IndexPairsWithSelf(n) ==
    LET P == {ij \in (1..n) \X (1..n) : ij[1] <= ij[2]}
    IN  CHOOSE s \in Perms(P) :
            \A a, b \in 1..Cardinality(P) :
                a < b => \/ s[a][1] < s[b][1]
                         \/ s[a][1] = s[b][1] /\ s[a][2] < s[b][2]

\* for i in range(n): for j in range(i + 1, n)
IndexPairs(n) ==
    LET P == {ij \in (1..n) \X (1..n) : ij[1] < ij[2]}
    IN  CHOOSE s \in Perms(P) :
            \A a, b \in 1..Cardinality(P) :
                a < b => \/ s[a][1] < s[b][1]
                         \/ s[a][1] = s[b][1] /\ s[a][2] < s[b][2]

\* list.sort(key=lambda x: x[field], reverse=True): stable, by a rational
\* field descending
SortByRatDesc(seq, field) ==
    LET n == Len(seq)
        perm == CHOOSE f \in Perms(1..n) :
                    \A i, j \in 1..n :
                        i < j => \/ RatLess(seq[f[j]][field], seq[f[i]][field])
                                 \/ /\ RatEq(seq[f[i]][field], seq[f[j]][field])
                                    /\ f[i] < f[j]
    IN  [i \in 1..n |-> seq[perm[i]]]

Min2(a, b) == IF a <= b THEN a ELSE b

----------------------------------------------------------------------------
(* The store: exchanges, currency_pairs, price_ticks *)

BasisPoints == 100 * 100      \* fee rates and thresholds count 1/10000

\* Exchange.code -> Exchange.name, the display name of the venue
ExchangeName(code) ==
    CASE code = "bybit" -> "Bybit"
      [] code = "binance" -> "Binance"
      [] code = "gmo" -> "GMO"
      [] OTHER -> code

\* pair_symbol.split('/')
BaseCurrency(pair_symbol) ==
    CASE pair_symbol \in {"BTC/USDT", "BTC/JPY"} -> "BTC"
      [] pair_symbol \in {"ETH/USDT", "ETH/JPY"} -> "ETH"
      [] OTHER -> "XRP"

QuoteCurrency(pair_symbol) ==
    IF pair_symbol \in {"BTC/USDT", "ETH/USDT"} THEN "USDT" ELSE "JPY"

TickKey(k) == <<k.exchange, k.pair, k.timestamp>>

\* session.merge in place of session.add: the stored row takes the new values
SavePriceTickUpsert(exchange_code, symbol, price_data) ==
    LET tick == [exchange |-> exchange_code, pair |-> symbol,
                 timestamp |-> price_data.timestamp,
                 bid |-> price_data.bid, ask |-> price_data.ask,
                 bid_size |-> price_data.bid_size,
                 ask_size |-> price_data.ask_size]
    IN  {k \in price_ticks : TickKey(k) # TickKey(tick)} \cup {tick}

\* save_price_tick inside collect_price_data: the composite primary key
\* refuses a second row of one (exchange, pair, timestamp); the error is logged
SavePriceTick(exchange_code, symbol, price_data) ==
    LET tick == [exchange |-> exchange_code, pair |-> symbol,
                 timestamp |-> price_data.timestamp,
                 bid |-> price_data.bid, ask |-> price_data.ask,
                 bid_size |-> price_data.bid_size,
                 ask_size |-> price_data.ask_size]
    IN  IF \E k \in price_ticks : TickKey(k) = TickKey(tick)
        THEN price_ticks
        ELSE price_ticks \cup {tick}

\* collect_price_data(exchange_code, symbol), the venue answering
\* ticker_data: the IntegrityError of a second row of one key leaves
\* save_price_tick, is rolled back by get_session and logged by the handler
CollectPriceDataCall(exchange_code, symbol, ticker_data) ==
    LET key == <<exchange_code, symbol, ticker_data.timestamp>>
    IN  /\ price_ticks' = SavePriceTick(exchange_code, symbol, ticker_data)
        /\ last_save' = [seq |-> 1 - last_save.seq, key |-> key,
                         error |-> \E k \in price_ticks : TickKey(k) = key]

\* the row of one exchange with the greatest timestamp among the rows S
LatestOf(S, exchange_code) ==
    CHOOSE k \in S :
        /\ k.exchange = exchange_code
        /\ \A o \in S : o.exchange = exchange_code => o.timestamp <= k.timestamp

----------------------------------------------------------------------------
(* ArbitrageDetector *)

\* 0.1 BTC, 1.0 ETH, 10000 XRP, in tenths of a coin
MaxPositionSize(base_currency) ==
    CASE base_currency = "BTC" -> 1
      [] base_currency = "ETH" -> 10
      [] base_currency = "XRP" -> 100000
      [] OTHER -> 1

\* timedelta(minutes=1) of get_latest_prices
DetectorWindow == Minutes(1)

\* PriceTick.timestamp > time_threshold
DetectorFresh(k, pair_symbol, t) ==
    k.pair = pair_symbol /\ k.timestamp > t - DetectorWindow

\* a query that keeps min(timestamp) per exchange
GetLatestPricesKeepsOldest(pair_symbol, t) ==
    LET fresh == {k \in price_ticks : DetectorFresh(k, pair_symbol, t)}
    IN  [e \in {k.exchange : k \in fresh} |->
            CHOOSE k \in fresh :
                /\ k.exchange = e
                /\ \A o \in fresh : o.exchange = e => o.timestamp >= k.timestamp]

\* get_latest_prices: exchange code -> its latest row inside the window
GetLatestPrices(pair_symbol, t) ==
    LET fresh == {k \in price_ticks : DetectorFresh(k, pair_symbol, t)}
    IN  [e \in {k.exchange : k \in fresh} |-> LatestOf(fresh, e)]

\* calculate_fees: amount * price * taker_fee, in 1/10000 of a price unit
CalculateFees(exchange_code, amount, price) ==
    amount * price * engine.taker_fee[exchange_code]

\* calculate_transfer_fee: withdrawal_fees of the buying venue
CalculateTransferFee(from_exchange, currency) ==
    engine.withdrawal_fee[from_exchange]

\* the body of the double loop of detect_opportunities for one (i, j)
DetectOne(prices, pair_symbol, buy_exchange, sell_exchange) ==
    LET buy_price == prices[buy_exchange].ask
        sell_price == prices[sell_exchange].bid
        buy_price_rev == prices[sell_exchange].ask
        sell_price_rev == prices[buy_exchange].bid
        all4 == {buy_price, sell_price, buy_price_rev, sell_price_rev}
        forward == sell_price > buy_price
        final_buy_exchange == IF forward THEN buy_exchange ELSE sell_exchange
        final_sell_exchange == IF forward THEN sell_exchange ELSE buy_exchange
        final_buy_price == IF forward THEN buy_price ELSE buy_price_rev
        final_sell_price == IF forward THEN sell_price ELSE sell_price_rev
        price_diff == final_sell_price - final_buy_price
        price_diff_pct == Rat(100 * price_diff, final_buy_price)
        max_buy_size == prices[final_buy_exchange].ask_size
        max_sell_size == prices[final_sell_exchange].bid_size
        max_position == MaxPositionSize(BaseCurrency(pair_symbol))
        max_volume == Min2(Min2(max_buy_size, max_sell_size), max_position)
        buy_fees == CalculateFees(final_buy_exchange, max_volume, final_buy_price)
        sell_fees == CalculateFees(final_sell_exchange, max_volume, final_sell_price)
        transfer_fee == CalculateTransferFee(final_buy_exchange,
                                             BaseCurrency(pair_symbol))
        total_fees == buy_fees + sell_fees + transfer_fee
        total_fees_pct == Rat(total_fees, 100 * max_volume * final_buy_price)
        estimated_profit_pct ==
            Rat(BasisPoints * price_diff * max_volume - total_fees,
                100 * max_volume * final_buy_price)
    IN  IF \E x \in all4 : x = 0 THEN <<>>
        ELSE IF \E x \in all4 : x <= 0 THEN <<>>
        ELSE IF final_buy_price = 0 THEN <<>>
        ELSE IF RatLess(price_diff_pct, Rat(engine.min_profit_threshold, 100))
             THEN <<>>
        ELSE IF max_volume = 0 \/ final_buy_price = 0 THEN <<>>
        ELSE IF RatPositive(estimated_profit_pct)
             THEN << [buy_exchange |-> final_buy_exchange,
                      sell_exchange |-> final_sell_exchange,
                      pair_symbol |-> pair_symbol,
                      buy_price |-> final_buy_price,
                      sell_price |-> final_sell_price,
                      price_diff_pct |-> price_diff_pct,
                      max_volume |-> max_volume,
                      buy_fees |-> buy_fees,
                      sell_fees |-> sell_fees,
                      transfer_fee |-> transfer_fee,
                      total_fees_pct |-> total_fees_pct,
                      estimated_profit_pct |-> estimated_profit_pct] >>
        ELSE <<>>

\* detect_opportunities(prices, pair_symbol); exchanges lists prices.keys()
DetectOpportunities(prices, pair_symbol, exchanges) ==
    LET ip == IndexPairs(Len(exchanges))
        found == [k \in 1..Len(ip) |->
                    DetectOne(prices, pair_symbol,
                              exchanges[ip[k][1]], exchanges[ip[k][2]])]
    IN  SortByRatDesc(FlattenSeq(found), "estimated_profit_pct")

\* save_opportunities: one row per opportunity, status 'detected'
OpportunityRow(opp, t) ==
    [timestamp |-> t,
     buy_exchange |-> opp.buy_exchange, sell_exchange |-> opp.sell_exchange,
     pair |-> opp.pair_symbol,
     buy_price |-> opp.buy_price, sell_price |-> opp.sell_price,
     price_diff_pct |-> opp.price_diff_pct,
     estimated_profit_pct |-> opp.estimated_profit_pct,
     status |-> "detected"]

SaveOpportunities(opportunities, t) ==
    arbitrage_opportunities \cup
        {OpportunityRow(opportunities[i], t) : i \in 1..Len(opportunities)}

\* analyze_single_pair(pair_symbol); exchanges is the order of the rows
AnalyzeSinglePairCall(pair_symbol, exchanges) ==
    LET prices == GetLatestPrices(pair_symbol, now)
        enough == Cardinality(DOMAIN prices) >= 2
        opportunities == IF enough
                         THEN DetectOpportunities(prices, pair_symbol, exchanges)
                         ELSE <<>>
    IN  /\ arbitrage_opportunities' = SaveOpportunities(opportunities, now)
        /\ cycle' = [engine |-> "detector", at |-> now, error |-> FALSE,
                     ticks |-> price_ticks,
                     candidates |-> opportunities, offered |-> {}]
        /\ UNCHANGED <<price_ticks, engine, notified_opportunities, pending>>

----------------------------------------------------------------------------
(* AdvancedArbitrageAnalyzer *)

\* exchange_fees, in basis points; 0.2 % for a venue not listed
ExchangeFee(code) ==
    CASE code \in {"bitflyer", "coincheck"} -> 15
      [] code = "bitbank" -> 12
      [] code = "gmo" -> 5
      [] code \in {"bybit", "binance"} -> 10
      [] OTHER -> 20

\* timedelta(minutes=5) of the queries, and of notification_cooldown
AdvancedWindow == Minutes(5)
AnalyzerCooldown == Minutes(5)

\* PriceTick.timestamp >= recent_time
AdvancedFresh(k, t) == k.timestamp >= t - AdvancedWindow

ExchangeDict(k) ==
    [exchange_code |-> k.exchange, exchange_name |-> ExchangeName(k.exchange),
     bid |-> k.bid, ask |-> k.ask, timestamp |-> k.timestamp]

\* _check_arbitrage_opportunity divides by effective_buy_price
CheckRaises(exchange1, exchange2) ==
    \/ exchange1.ask < exchange2.bid /\ exchange1.ask = 0
    \/ ~(exchange1.ask < exchange2.bid) /\ exchange2.ask < exchange1.bid
          /\ exchange2.ask = 0

\* _check_arbitrage_opportunity: <<>> for None, else the opportunity
CheckArbitrageOpportunity(pair_symbol, exchange1, exchange2, arb_type) ==
    LET first == exchange1.ask < exchange2.bid
        second == exchange2.ask < exchange1.bid
        buy_exchange == IF first THEN exchange1 ELSE exchange2
        sell_exchange == IF first THEN exchange2 ELSE exchange1
        buy_price == buy_exchange.ask
        sell_price == sell_exchange.bid
        buy_fee == ExchangeFee(buy_exchange.exchange_code)
        sell_fee == ExchangeFee(sell_exchange.exchange_code)
        \* effective prices and profit in 1/10000 of a price unit
        effective_buy_price == buy_price * (BasisPoints + buy_fee)
        effective_sell_price == sell_price * (BasisPoints - sell_fee)
        profit == effective_sell_price - effective_buy_price
        profit_percentage == Rat(100 * profit, effective_buy_price)
        threshold == IF arb_type = "cross_rate" THEN engine.cross_rate_threshold
                     ELSE IF arb_type = "triangle" THEN engine.triangle_threshold
                     ELSE engine.advanced_min_profit_threshold
    IN  IF ~first /\ ~second THEN <<>>
        ELSE IF RatLess(profit_percentage, Rat(threshold, 100)) THEN <<>>
        ELSE << [type |-> arb_type,
                 pair |-> pair_symbol,
                 buy_exchange |-> buy_exchange.exchange_name,
                 buy_exchange_code |-> buy_exchange.exchange_code,
                 sell_exchange |-> sell_exchange.exchange_name,
                 sell_exchange_code |-> sell_exchange.exchange_code,
                 buy_price |-> buy_price,
                 sell_price |-> sell_price,
                 profit |-> profit,
                 profit_percentage |-> profit_percentage,
                 buy_timestamp |-> buy_exchange.timestamp,
                 sell_timestamp |-> sell_exchange.timestamp] >>

\* the latest row per exchange of one pair among the rows S, as price_data
\* and latest_prices keep them
LatestPerExchange(S, pair_symbol) ==
    LET rows == {k \in S : k.pair = pair_symbol}
    IN  [e \in {k.exchange : k \in rows} |-> LatestOf(rows, e)]

\* the candidates of one pair, its exchanges listed in the order given
CheckAllPairs(pair_symbol, latest, exchanges_list, arb_type) ==
    LET ip == IndexPairs(Len(exchanges_list))
        found == [k \in 1..Len(ip) |->
                    LET e1 == ExchangeDict(latest[exchanges_list[ip[k][1]]])
                        e2 == ExchangeDict(latest[exchanges_list[ip[k][2]]])
                    IN  IF e1.exchange_code = e2.exchange_code THEN <<>>
                        ELSE CheckArbitrageOpportunity(pair_symbol, e1, e2, arb_type)]
    IN  FlattenSeq(found)

AnyCheckRaises(latest, exchanges_list) ==
    \E i, j \in 1..Len(exchanges_list) :
        /\ i < j
        /\ CheckRaises(ExchangeDict(latest[exchanges_list[i]]),
                       ExchangeDict(latest[exchanges_list[j]]))

\* analyze_direct_arbitrage: the query lists the rows by timestamp descending,
\* so pairs and exchanges come in the order of their latest row; pord and
\* eord say how the database orders rows of equal timestamp
DirectPairs(t) == {k.pair : k \in {x \in price_ticks : AdvancedFresh(x, t)}}

DirectLatest(pair_symbol, t) ==
    LatestPerExchange({k \in price_ticks : AdvancedFresh(k, t)}, pair_symbol)

DirectExchangesList(pair_symbol, t, eord) ==
    LET latest == DirectLatest(pair_symbol, t)
    IN  ListByTimestampDesc(latest, eord)

DirectPairList(t, pord) ==
    LET recent == {k \in price_ticks : AdvancedFresh(k, t)}
        newest == [p \in DirectPairs(t) |->
                      CHOOSE k \in recent :
                          /\ k.pair = p
                          /\ \A o \in recent : o.pair = p => o.timestamp <= k.timestamp]
    IN  ListByTimestampDesc(newest, pord)

AnalyzeDirectArbitrage(t, pord, eord) ==
    LET pair_list == DirectPairList(t, pord)
    IN  FlattenSeq([i \in 1..Len(pair_list) |->
            LET latest == DirectLatest(pair_list[i], t)
            IN  IF Cardinality(DOMAIN latest) < 2 THEN <<>>
                ELSE CheckAllPairs(pair_list[i], latest,
                                   DirectExchangesList(pair_list[i], t, eord),
                                   "direct")])

DirectRaises(t, eord) ==
    \E p \in DirectPairs(t) :
        /\ Cardinality(DOMAIN DirectLatest(p, t)) >= 2
        /\ AnyCheckRaises(DirectLatest(p, t), DirectExchangesList(p, t, eord))

\* analyze_cross_rate_arbitrage: _analyze_cross_rate returns None
AnalyzeCrossRateArbitrage == <<>>

\* analyze_usd_arbitrage: pairs LIKE '%/USDT', exchanges binance and bybit;
\* the queries are not ordered: pord and uord are the orders of their rows
UsdRows(pair_symbol, t) ==
    {k \in price_ticks : /\ k.pair = pair_symbol
                         /\ AdvancedFresh(k, t)
                         /\ k.exchange \in {"binance", "bybit"}}

UsdPairs == {p \in {k.pair : k \in price_ticks} : QuoteCurrency(p) = "USDT"}

UsdExchangesList(pair_symbol, t, uord) ==
    LET latest == LatestPerExchange(UsdRows(pair_symbol, t), pair_symbol)
    IN  ListInOrder(DOMAIN latest, uord)

AnalyzeUsdArbitrage(t, pord, uord) ==
    LET pair_list == ListInOrder(UsdPairs, pord)
    IN  FlattenSeq([i \in 1..Len(pair_list) |->
            LET rows == UsdRows(pair_list[i], t)
            IN  IF Cardinality(rows) >= 2
                THEN CheckAllPairs(pair_list[i],
                                   LatestPerExchange(rows, pair_list[i]),
                                   UsdExchangesList(pair_list[i], t, uord), "usd")
                ELSE <<>>])

UsdRaises(t, uord) ==
    \E p \in UsdPairs :
        /\ Cardinality(UsdRows(p, t)) >= 2
        /\ AnyCheckRaises(LatestPerExchange(UsdRows(p, t), p),
                          UsdExchangesList(p, t, uord))

\* analyze_triangle_arbitrage, analyze_latency_arbitrage
AnalyzeTriangleArbitrage == <<>>
AnalyzeLatencyArbitrage == <<>>

\* analyze_all_opportunities up to the call of _notify_opportunities, which
\* NotifyOpportunity then runs entry by entry; an exception of a strategy
\* leaves the method before anything is notified
AnalyzeAllOpportunitiesCall(pord, eord, uord) ==
    LET raised == DirectRaises(now, eord) \/ UsdRaises(now, uord)
        opportunities ==
            AnalyzeDirectArbitrage(now, pord, eord)
                \o AnalyzeCrossRateArbitrage
                \o AnalyzeUsdArbitrage(now, pord, uord)
                \o AnalyzeTriangleArbitrage
                \o AnalyzeLatencyArbitrage
        sorted == IF raised THEN <<>>
                  ELSE SortByRatDesc(opportunities, "profit_percentage")
    IN  /\ pending' = sorted
        /\ cycle' = [engine |-> "advanced", at |-> now, error |-> raised,
                     ticks |-> price_ticks,
                     candidates |-> sorted, offered |-> {}]
        /\ UNCHANGED <<price_ticks, arbitrage_opportunities, engine,
                       notified_opportunities>>

NotifyKey(opp) ==
    <<opp.type, opp.pair, opp.buy_exchange_code, opp.sell_exchange_code>>

AnalyzerCooldownActive(opp, t) ==
    /\ NotifyKey(opp) \in DOMAIN notified_opportunities
    /\ t - notified_opportunities[NotifyKey(opp)] < AnalyzerCooldown

\* opp['profit_pct'] = opp['profit_percentage']
WithProfitPct(opp) ==
    [f \in DOMAIN opp \cup {"profit_pct"} |->
        IF f = "profit_pct" THEN opp.profit_percentage ELSE opp[f]]

\* one round of the loop of _notify_opportunities, for the head of pending
NotifyOpportunityCall(resp) ==
    LET opp == Head(pending)
        key == NotifyKey(opp)
        data == WithProfitPct(opp)
        sent == GateDecision(data, now) = "send" /\ SendMessageResult(resp)
    IN  /\ pending' = Tail(pending)
        /\ IF AnalyzerCooldownActive(opp, now)
           THEN UNCHANGED <<gate_vars, notified_opportunities, cycle>>
           ELSE /\ SendArbitrageAlertCall(data, resp)
                /\ cycle' = [cycle EXCEPT !.offered = @ \cup {opp}]
                /\ notified_opportunities' =
                       IF sent
                       THEN [k \in DOMAIN notified_opportunities \cup {key} |->
                               IF k = key THEN now ELSE notified_opportunities[k]]
                       ELSE notified_opportunities
        /\ UNCHANGED <<price_ticks, arbitrage_opportunities, engine>>

----------------------------------------------------------------------------
(* FXRateService, one object for the process, and the exchange clients     *)
(* that start and stop it                                                  *)

\* fallback_rates['USDJPY'], yen for a dollar
FallbackUsdJpy == 155

\* update_interval
UpdateInterval == Minutes(5)

\* update_rates asks these in turn
RateSources == <<"exchangerate_api", "fixer", "free_api">>

\* FXRateService.__init__; None is <<>>, no session is 0
NewFXRateService == [rates |-> <<>>, last_update |-> <<>>, session |-> 0]

\* _should_update
ShouldUpdate(t) ==
    \/ fx.last_update = <<>>
    \/ t - fx.last_update[1] > UpdateInterval

\* rates.get(pair, fallback_rates.get(pair, Decimal('155.0')))
RateOf(rates) == Get(rates, "USDJPY", FallbackUsdJpy)

\* a request through session s can be made
SessionUsable(s) == s # 0 /\ sessions[s] = "open"

\* the coroutines: 0 is the __aenter__ of a client, the others are the
\* tasks it gathers
Idle == [at |-> "idle", source |-> 0]

AllIdle == \A p \in DOMAIN pc : pc[p] = Idle

\* BybitCollector and BinanceCollector start fx_service in __aenter__
UsesFx(a) == a \in {"bybit", "binance"}

\* update_rates once source number `source` has answered rate, 0 for None:
\* the first rate wins, the fallback is written when all have failed
UpdateRatesDone(source, rate) == rate # 0 \/ source = Len(RateSources)

UpdateRates(source, rate, t) ==
    IF rate # 0
    THEN [fx EXCEPT !.rates = [USDJPY |-> rate], !.last_update = <<t>>]
    ELSE IF source < Len(RateSources) THEN fx
    ELSE [fx EXCEPT !.rates = [USDJPY |-> FallbackUsdJpy]]

\* _fetch_from_...: the request of coroutine p returns rate; a request
\* through no session or a closed one raises, which reads as None
FetchRateCall(p, rate) ==
    LET source == pc[p].source
        done == UpdateRatesDone(source, rate)
        updated == UpdateRates(source, rate, now)
        good == IF rate # 0 THEN <<rate>> ELSE fx_good
    IN  /\ pc[p].at = "update_rates"
        /\ ~SessionUsable(fx.session) => rate = 0
        /\ fx' = updated
        /\ fx_good' = good
        /\ pc' = [pc EXCEPT ![p] =
                    IF ~done THEN [at |-> "update_rates", source |-> source + 1]
                    ELSE IF p[2] = 0 /\ p[1] = "binance"
                         THEN [at |-> "exchange_info", source |-> 0]
                    ELSE Idle]
        \* BybitCollector.__aenter__ returns once start() has
        /\ adapters' = IF done /\ p[2] = 0 /\ p[1] # "binance"
                       THEN [adapters EXCEPT ![p[1]].state = "open"]
                       ELSE adapters
        \* get_rate returns what rates holds now
        /\ last_get_rate' = IF done /\ p[2] # 0
                            THEN [returned |-> TRUE,
                                  value |-> RateOf(updated.rates),
                                  cached |-> good]
                            ELSE last_get_rate
        /\ UNCHANGED <<sessions, last_refresh>>

\* ExchangeClient.__aenter__, and for a client with fx_service the start()
\* up to its first request: a new session replaces fx_service.session
AdapterEnterCall(a) ==
    LET own == Len(sessions) + 1
        shared == Len(sessions) + 2
    IN  /\ adapters[a].state \in {"new", "closed"}
        /\ AllIdle
        /\ IF UsesFx(a)
           THEN /\ sessions' = sessions \o <<"open", "open">>
                /\ adapters' = [adapters EXCEPT ![a] =
                                  [state |-> "entering", session |-> own,
                                   fx_session |-> shared]]
                /\ fx' = [fx EXCEPT !.session = shared]
                /\ pc' = [pc EXCEPT ![<<a, 0>>] =
                            [at |-> "update_rates", source |-> 1]]
                /\ last_refresh' = [via |-> "start", at |-> now,
                                    last_update |-> fx.last_update]
           ELSE /\ sessions' = Append(sessions, "open")
                /\ adapters' = [adapters EXCEPT ![a] =
                                  [state |-> "open", session |-> own,
                                   fx_session |-> 0]]
                /\ UNCHANGED <<fx, pc, last_refresh>>
        /\ UNCHANGED <<fx_good, last_get_rate>>

\* BinanceCollector._fetch_exchange_info returns and __aenter__ with it
FetchExchangeInfoCall(a) ==
    /\ pc[<<a, 0>>].at = "exchange_info"
    /\ pc' = [pc EXCEPT ![<<a, 0>>] = Idle]
    /\ adapters' = [adapters EXCEPT ![a].state = "open"]
    /\ UNCHANGED <<fx, sessions, fx_good, last_get_rate, last_refresh>>

\* get_rate called by task i of client a, up to the first request or, with
\* nothing to update, to its return
GetRateCall(a, i) ==
    /\ adapters[a].state = "open"
    /\ pc[<<a, i>>] = Idle
    /\ \A p \in DOMAIN pc : pc[p] # Idle => p[1] = a /\ p[2] # 0
    /\ IF ShouldUpdate(now)
       THEN /\ pc' = [pc EXCEPT ![<<a, i>>] =
                        [at |-> "update_rates", source |-> 1]]
            /\ last_refresh' = [via |-> "get_rate", at |-> now,
                                last_update |-> fx.last_update]
            /\ UNCHANGED last_get_rate
       ELSE /\ last_get_rate' = [returned |-> TRUE, value |-> RateOf(fx.rates),
                                 cached |-> fx_good]
            /\ UNCHANGED <<pc, last_refresh>>
    /\ UNCHANGED <<fx, sessions, adapters, fx_good>>

\* __aexit__: fx_service.stop() closes the session fx_service holds, then
\* ExchangeClient.__aexit__ closes the client's own
AdapterExitCall(a) ==
    /\ adapters[a].state = "open"
    /\ AllIdle
    /\ sessions' = [s \in DOMAIN sessions |->
                       IF s = adapters[a].session \/ (UsesFx(a) /\ s = fx.session)
                       THEN "closed" ELSE sessions[s]]
    /\ adapters' = [adapters EXCEPT ![a].state = "closed"]
    /\ UNCHANGED <<fx, pc, fx_good, last_get_rate, last_refresh>>

NoReturn == [returned |-> FALSE, value |-> 0, cached |-> <<>>]

NoRefresh == [via |-> "none", at |-> 0, last_update |-> <<>>]

\* the module is imported, the clients are constructed, `tasks` coroutines
\* may be gathered per client
FxInit(clients, tasks) ==
    /\ fx = NewFXRateService
    /\ sessions = <<>>
    /\ adapters = [a \in clients |->
                     [state |-> "new", session |-> 0, fx_session |-> 0]]
    /\ pc = [p \in clients \X (0..tasks) |-> Idle]
    /\ fx_good = <<>>
    /\ last_get_rate = NoReturn
    /\ last_refresh = NoRefresh

----------------------------------------------------------------------------
(* DataCollector and the scheduler that runs its two jobs *)

\* config['exchanges'] in the order of the file
ExchangeOrder == <<"bitflyer", "bitbank", "coincheck", "gmo", "bybit", "binance">>

\* the exchange codes initialize has a client class for
SupportedExchanges == {"bitflyer", "bitbank", "coincheck", "gmo"}

\* initialize: exchange code -> 'pairs' of every enabled exchange it can
\* construct; the others are skipped
InitializeExchanges(exchanges_config) ==
    [e \in {x \in DOMAIN exchanges_config :
                exchanges_config[x].enabled /\ x \in SupportedExchanges}
        |-> exchanges_config[e].supported_pairs]

\* self.exchanges.items(), a dict in insertion order
ExchangeList ==
    SelectSeq(ExchangeOrder, LAMBDA e : e \in DOMAIN collector.exchanges)

\* pair.replace('_', '/').upper(), a slash put before JPY or USDT if none is
\* there
Symbol(pair) ==
    CASE pair \in {"BTC_JPY", "btc_jpy", "BTCJPY"} -> "BTC/JPY"
      [] pair \in {"ETH_JPY", "eth_jpy"} -> "ETH/JPY"
      [] pair \in {"BTC_USDT", "BTCUSDT"} -> "BTC/USDT"
      [] OTHER -> pair

\* symbol.replace('/', '_').lower() in pair.lower()
OrderbookPairMatches(symbol, pair) ==
    \/ symbol = "BTC/JPY" /\ pair \in {"BTC_JPY", "btc_jpy"}
    \/ symbol = "ETH/JPY" /\ pair \in {"ETH_JPY", "eth_jpy"}

MajorPairs == {"BTC/JPY", "ETH/JPY"}

JobIds == {"price_collection", "orderbook_collection"}

\* add_job(..., max_instances=1)
MaxInstancesTwo(job_id) == 2

MaxInstances(job_id) == 1

\* the coroutines a job instance gathers: collect_price_data per exchange
\* and configured pair, collect_orderbook_data per exchange and major pair
\* one of its pairs matches
JobCalls(job_id) ==
    IF job_id = "price_collection"
    THEN UNION {{<<e, p>> : p \in collector.exchanges[e]} :
                   e \in DOMAIN collector.exchanges}
    ELSE UNION {{<<e, m>> : m \in {x \in MajorPairs :
                                      \E p \in collector.exchanges[e] :
                                          OrderbookPairMatches(x, p)}} :
                   e \in DOMAIN collector.exchanges}

RemoveAt(seq, i) == SubSeq(seq, 1, i - 1) \o SubSeq(seq, i + 1, Len(seq))

\* await client.__aenter__() for every client: each gets a new session in
\* place of the one it holds
EnterClients(adp, first) ==
    [a \in DOMAIN adp |->
        [adp[a] EXCEPT !.state = "open",
                       !.session = first + Pos(ExchangeList, a) - 1]]

\* await client.__aexit__() for every client: the session it holds is closed
ExitClients(sess, adp) ==
    [x \in DOMAIN sess |->
        IF \E a \in DOMAIN adp : adp[a].session = x THEN "closed" ELSE sess[x]]

\* DataCollector.initialize; a failed database test raises and the process
\* ends
InitializeCall(db_ok) ==
    LET constructed == InitializeExchanges(collector.config)
    IN  /\ ~collector.initialized
        /\ ~collector.failed
        /\ collector' = [collector EXCEPT !.exchanges = constructed,
                                          !.initialized = db_ok,
                                          !.failed = ~db_ok]
        /\ adapters' = [a \in DOMAIN constructed |->
                          [state |-> "new", session |-> 0, fx_session |-> 0]]
        /\ pc' = [p \in (DOMAIN constructed) \X {0} |-> Idle]
        /\ UNCHANGED <<fx, sessions, fx_good, last_get_rate, last_refresh,
                       scheduler, orderbook_snapshots, last_fire, last_cycle,
                       price_ticks>>

\* DataCollector.start: both jobs are added and the scheduler runs
StartCall ==
    /\ collector.initialized
    /\ ~collector.running
    /\ collector' = [collector EXCEPT !.running = TRUE]
    /\ UNCHANGED <<fx_vars, scheduler, orderbook_snapshots, last_fire,
                   last_cycle, price_ticks>>

\* the interval of a job elapses: the scheduler submits the job unless
\* max_instances of it are running; then collect_all_prices or
\* collect_orderbooks_periodically runs up to its gather, or to its end
\* when it has nothing to gather
FireCall(job_id) ==
    LET running == scheduler.runs[job_id]
        calls == JobCalls(job_id)
        n == Len(ExchangeList)
        first == Len(sessions) + 1
        opened == first..(first + n - 1)
        instance == [calls |-> [c \in calls |-> "pending"],
                     opened |-> opened, at |-> now]
        entered == EnterClients(adapters, first)
        created == sessions \o [i \in 1..n |-> "open"]
    IN  /\ collector.running
        /\ IF Len(running) >= MaxInstances(job_id)
           THEN /\ last_fire' = [job |-> job_id, suppressed |-> TRUE]
                /\ scheduler' = [scheduler EXCEPT !.fired = @ + 1]
                /\ UNCHANGED <<sessions, adapters, last_cycle>>
           ELSE /\ last_fire' = [job |-> job_id, suppressed |-> FALSE]
                /\ IF calls = {}
                   THEN /\ sessions' = ExitClients(created, entered)
                        /\ adapters' = [a \in DOMAIN entered |->
                                          [entered[a] EXCEPT !.state = "closed"]]
                        /\ scheduler' = [scheduler EXCEPT !.fired = @ + 1]
                        /\ last_cycle' = [job |-> job_id, calls |-> instance.calls,
                                          opened |-> opened, at |-> now]
                   ELSE /\ sessions' = created
                        /\ adapters' = entered
                        /\ scheduler' = [scheduler EXCEPT
                                            !.fired = @ + 1,
                                            !.runs[job_id] = Append(@, instance)]
                        /\ UNCHANGED last_cycle
        /\ UNCHANGED <<fx, pc, fx_good, last_get_rate, last_refresh,
                       collector, orderbook_snapshots, price_ticks>>

CallOutcomes == {"ok", "http_error", "malformed", "write_failure"}

\* collect_price_data or collect_orderbook_data of instance i of a job
\* returns: the request went through the session the client holds now, the
\* answer was stored or an exception was logged
CallDoneCall(job_id, i, c, outcome, q) ==
    LET instance == scheduler.runs[job_id][i]
        usable == SessionUsable(adapters[c[1]].session)
        price == job_id = "price_collection"
        symbol == IF price THEN Symbol(c[2]) ELSE c[2]
        duplicate == price /\ \E k \in price_ticks :
                                  TickKey(k) = <<c[1], symbol, now>>
        status == IF ~usable THEN "session_closed"
                  ELSE IF outcome # "ok" \/ duplicate THEN "failed"
                  ELSE "saved"
    IN  /\ instance.calls[c] = "pending"
        /\ scheduler' = [scheduler EXCEPT !.runs[job_id][i].calls[c] = status]
        /\ price_ticks' =
              IF price /\ status = "saved"
              THEN SavePriceTick(c[1], symbol,
                                 [timestamp |-> now, bid |-> q.bid, ask |-> q.ask,
                                  bid_size |-> q.bid_size, ask_size |-> q.ask_size])
              ELSE price_ticks
        /\ orderbook_snapshots' =
              IF ~price /\ status = "saved"
              THEN Append(orderbook_snapshots,
                          [exchange |-> c[1], pair |-> symbol, timestamp |-> now])
              ELSE orderbook_snapshots
        /\ UNCHANGED <<fx_vars, collector, last_fire, last_cycle>>

\* gather has every result: the job closes the session of every client and
\* ends
EndJobCall(job_id, i) ==
    LET instance == scheduler.runs[job_id][i]
    IN  /\ \A c \in DOMAIN instance.calls : instance.calls[c] # "pending"
        /\ sessions' = ExitClients(sessions, adapters)
        /\ adapters' = [a \in DOMAIN adapters |->
                          [adapters[a] EXCEPT !.state = "closed"]]
        /\ scheduler' = [scheduler EXCEPT !.runs[job_id] = RemoveAt(@, i)]
        /\ last_cycle' = [job |-> job_id, calls |-> instance.calls,
                          opened |-> instance.opened, at |-> instance.at]
        /\ UNCHANGED <<fx, pc, fx_good, last_get_rate, last_refresh,
                       collector, orderbook_snapshots, last_fire, price_ticks>>

NoFire == [job |-> "none", suppressed |-> FALSE]

NoRun == [job |-> "none", calls |-> <<>>, opened |-> {}, at |-> 0]

\* DataCollector.__init__ with one of the configurations
CollectorInit(configs) ==
    /\ collector \in {[config |-> c, exchanges |-> <<>>, initialized |-> FALSE,
                       failed |-> FALSE, running |-> FALSE] : c \in configs}
    /\ scheduler = [runs |-> [j \in JobIds |-> <<>>], fired |-> 0]
    /\ orderbook_snapshots = <<>>
    /\ last_fire = NoFire
    /\ last_cycle = NoRun

----------------------------------------------------------------------------
(* The trading operations of the exchange clients *)

Operations == {"get_balance", "place_order", "cancel_order", "get_orders"}

\* the methods a client has no implementation for
Unimplemented(exchange_code, operation) ==
    \/ exchange_code = "bybit"
    \/ exchange_code \in {"binance", "coincheck"} /\ operation # "get_balance"

Raises(exception) == [kind |-> "raises", value |-> exception]

Returns(value) == [kind |-> "returns", value |-> value]

\* get_balance, place_order, cancel_order and get_orders of the six
\* clients: has_credentials says the API key and secret are set,
\* with_symbol that the caller named a symbol, response_ok that the venue
\* answered the request with success
TradingOperation(exchange_code, operation, has_credentials, with_symbol, response_ok) ==
    IF Unimplemented(exchange_code, operation)
    THEN IF exchange_code = "coincheck" THEN Raises("NotImplementedError")
         ELSE Returns("empty")
    ELSE IF exchange_code = "binance"
    THEN IF response_ok THEN Returns("result") ELSE Returns("empty")
    ELSE IF ~has_credentials THEN Raises("ValueError")
    ELSE IF exchange_code = "bitbank" /\ operation \in {"cancel_order", "get_orders"}
            /\ ~with_symbol
    THEN Raises("ValueError")
    ELSE IF response_ok THEN Returns("result")
    ELSE Raises("ClientError")

\* a caller awaits one operation of one client
CallOperationCall(exchange_code, operation, has_credentials, with_symbol, response_ok) ==
    LET key == <<exchange_code, operation>>
        result == TradingOperation(exchange_code, operation, has_credentials,
                                   with_symbol, response_ok)
    IN  op_results' = [k \in DOMAIN op_results \cup {key} |->
                          IF k = key THEN result ELSE op_results[k]]

\* a process that constructs no client and no collector
\* NotificationConfig(): the process loads config/notifications.json when
\* src.notifications.config is imported
LoadConfig(file) == file

NoSystemAlert == [seq |-> 0, at |-> 0, alert_type |-> "none",
                  decision |-> "none", posted |-> FALSE, result |-> FALSE]

NoClear == [seq |-> 0, removed |-> {}]

NoProbe == [query |-> "none"]

NoSave == [seq |-> 0, key |-> <<>>, error |-> FALSE]

PolicyInit ==
    /\ config_file = config
    /\ last_system = NoSystemAlert
    /\ last_clear = NoClear
    /\ probe = NoProbe
    /\ last_save = NoSave

IoInit ==
    /\ FxInit({}, 0) /\ CollectorInit({<<>>}) /\ op_results = <<>>
    /\ PolicyInit

----------------------------------------------------------------------------
(* The notification gate on its own: any caller, any opportunity *)

Quiet(enabled, start, end) == [enabled |-> enabled, start |-> start, end |-> end]

Policy(enabled, discord, thr, amount, cooldown, max, quiet) ==
    [arbitrage_alerts |->
        [enabled |-> enabled, min_profit_threshold |-> thr,
         min_profit_amount |-> amount, cooldown_minutes |-> cooldown,
         max_notifications_per_hour |-> max],
     system_alerts |-> [enabled |-> TRUE, alert_types |-> {"ERROR", "WARNING"}],
     discord |-> [enabled |-> discord, quiet_hours |-> quiet]]

\* get_default_config: 0.05 %, 1000 JPY, 5 min, 20 per hour, 23:00-07:00 off
DefaultPolicy == Policy(TRUE, TRUE, PctBps(5), 1000, 5, 20, Quiet(FALSE, HHMM(23, 0), HHMM(7, 0)))

GatePolicies ==
    { DefaultPolicy,
      Policy(TRUE, TRUE, PctBps(5), 1000, 5, 2, Quiet(FALSE, HHMM(23, 0), HHMM(7, 0))),
      Policy(TRUE, TRUE, PctBps(5), 1000, 0, 2, Quiet(FALSE, HHMM(23, 0), HHMM(7, 0))),
      Policy(TRUE, TRUE, PctBps(5), 1000, 5, 20, Quiet(TRUE, HHMM(23, 0), HHMM(0, 2))),
      Policy(FALSE, TRUE, PctBps(5), 1000, 5, 20, Quiet(FALSE, HHMM(23, 0), HHMM(7, 0))) }

\* dictionaries of the shape scripts/test_discord_notify.py passes
AlertData(pair, buy, sell, pct, amount) ==
    [profit_pct |-> pct, profit |-> amount, buy_exchange |-> buy,
     sell_exchange |-> sell, pair_symbol |-> pair]

GateInputs ==
    { AlertData("BTC/JPY", "bitFlyer", "Coincheck", PctBps(15), 1500),
      AlertData("BTC/JPY", "bitFlyer", "Coincheck", PctBps(1), 100),
      AlertData("BTC/JPY", "Coincheck", "bitFlyer", PctBps(15), 1500) }

NoCall == [seq |-> 0, data |-> <<>>, decision |-> "none", posted |-> FALSE,
           resp |-> 0, result |-> FALSE]

GateInit(policies, urls) ==
    /\ now = 0
    /\ webhook_url \in urls
    /\ config \in policies
    /\ last_arbitrage_notification = <<>>
    /\ hourly_notification_count = <<>>
    /\ notification_history = <<>>
    /\ emits = <<>>
    /\ last_call = NoCall

\* what the running process loaded: main.py analyze runs ArbitrageDetector,
\* scripts/monitor_advanced_arbitrage.py runs AdvancedArbitrageAnalyzer
Engine(program, threshold, taker_fee, withdrawal_fee, advanced_threshold) ==
    [program |-> program,
     min_profit_threshold |-> threshold,
     taker_fee |-> taker_fee, withdrawal_fee |-> withdrawal_fee,
     advanced_min_profit_threshold |-> advanced_threshold,
     cross_rate_threshold |-> 10, triangle_threshold |-> 20]

NoCycle == [engine |-> "none", at |-> 0, error |-> FALSE, ticks |-> {},
            candidates |-> <<>>, offered |-> {}]

\* no rows, no cycle run yet; the analyzer holds one of the configurations
DetectInit(engines) ==
    /\ price_ticks = {}
    /\ arbitrage_opportunities = {}
    /\ engine \in engines
    /\ notified_opportunities = <<>>
    /\ pending = <<>>
    /\ cycle = NoCycle

Venues == {"bybit", "binance"}

PerVenue(x) == [e \in Venues |-> x]

\* min_profit_threshold 0.3 % and taker fees 0.1 %, as shipped
DefaultEngine(program) == Engine(program, 30, PerVenue(10), PerVenue(0), 30)

TickSteps == {Minutes(5), Minutes(55)}

Tick ==
    /\ \E d \in TickSteps : now + d <= MaxNow /\ now' = now + d
    /\ UNCHANGED <<gate_vars, detect_vars, io_vars>>

\* a caller offers an opportunity to the gate
SendArbitrageAlert ==
    \E arbitrage_data \in GateInputs, resp \in WebhookResponses :
        /\ GateDecision(arbitrage_data, now) = "send" => Len(emits) < MaxEmits
        /\ SendArbitrageAlertCall(arbitrage_data, resp)
        /\ UNCHANGED <<now, detect_vars, io_vars>>

vars == <<now, gate_vars, detect_vars, io_vars>>

InitGate ==
    /\ GateInit(GatePolicies, BOOLEAN)
    /\ DetectInit({DefaultEngine("detector")})
    /\ IoInit
NextGate == Tick \/ SendArbitrageAlert
SpecGate == InitGate /\ [][NextGate]_vars

----------------------------------------------------------------------------
(* The gate under a burst of alerts: the hourly buffer *)

CapPolicies ==
    { Policy(TRUE, TRUE, PctBps(5), 1000, 0, HourlyMaxLen + 1, Quiet(FALSE, HHMM(23, 0), HHMM(7, 0))),
      Policy(TRUE, TRUE, PctBps(5), 1000, 0, 2, Quiet(FALSE, HHMM(23, 0), HHMM(7, 0))) }

CapInputs ==
    { AlertData("BTC/JPY", "bitFlyer", "Coincheck", PctBps(15), 1500) }

TickHour ==
    /\ now + Hours(1) <= MaxNow
    /\ now' = now + Hours(1)
    /\ UNCHANGED <<gate_vars, detect_vars, io_vars>>

SendArbitrageAlertBurst ==
    \E arbitrage_data \in CapInputs :
        /\ GateDecision(arbitrage_data, now) = "send" => Len(emits) < MaxCapEmits
        /\ SendArbitrageAlertCall(arbitrage_data, HttpNoContent)
        /\ UNCHANGED <<now, detect_vars, io_vars>>

InitCap ==
    /\ GateInit(CapPolicies, {TRUE})
    /\ DetectInit({DefaultEngine("detector")})
    /\ IoInit
NextCap == TickHour \/ SendArbitrageAlertBurst
SpecCap == InitCap /\ [][NextCap]_vars

----------------------------------------------------------------------------
(* The detection cycles over a store the collectors fill *)

Quote(bid, ask) == [bid |-> bid, ask |-> ask, bid_size |-> 10, ask_size |-> 10]

\* 1 price unit = 10,000 JPY. bybit reports 9,990,000/10,000,000,
\* 9,980,000/9,990,000 or a crossed book 10,080,000/9,990,000; binance
\* 10,050,000/10,060,000 or 10,010,000/10,020,000
Quotes ==
    [bybit |-> {Quote(999, 1000), Quote(998, 999), Quote(1008, 999)},
     binance |-> {Quote(1005, 1006), Quote(1001, 1002)}]

DetectPairs == {"BTC/USDT"}

\* the detector as shipped, with taker fees 0.3 % and a withdrawal fee, and
\* with nothing charged and no threshold; the advanced analyzer as shipped
\* and with no threshold (it reads min_profit_threshold alone)
DetectEngines ==
    { DefaultEngine("detector"),
      Engine("detector", 30, PerVenue(30), PerVenue(100), 30),
      Engine("detector", 0, PerVenue(0), PerVenue(0), 0),
      DefaultEngine("advanced"),
      Engine("advanced", 0, PerVenue(0), PerVenue(0), 0) }

\* the clock passes 0:00, 0:30, 1:00 and then 5:30
DetectStep(t) == IF t < Minutes(1) THEN 1 ELSE Minutes(5) - 1

DetectTick ==
    /\ now + DetectStep(now) <= MaxDetectNow
    /\ now' = now + DetectStep(now)
    /\ UNCHANGED <<gate_vars, detect_vars, io_vars>>

\* collect_price_data: a collector stores the quote a venue reports
CollectPriceDataOf(pairs, quotes, max_ticks) ==
    \E exchange_code \in Venues, symbol \in pairs :
      \E q \in quotes[exchange_code] :
        /\ Cardinality(price_ticks) < max_ticks
        /\ price_ticks' =
              SavePriceTick(exchange_code, symbol,
                            [timestamp |-> now, bid |-> q.bid, ask |-> q.ask,
                             bid_size |-> q.bid_size, ask_size |-> q.ask_size])
        /\ UNCHANGED <<now, gate_vars, io_vars, arbitrage_opportunities, engine,
                       notified_opportunities, pending, cycle>>

CollectPriceData == CollectPriceDataOf(DetectPairs, Quotes, MaxTicks)

\* ArbitrageDetector.analyze_single_pair; the query returns the rows in any
\* order
AnalyzeSinglePairOf(pairs) ==
    \E pair_symbol \in pairs :
        \E exchanges \in Perms(DOMAIN GetLatestPrices(pair_symbol, now)) :
            /\ engine.program = "detector"
            /\ AnalyzeSinglePairCall(pair_symbol, exchanges)
            /\ UNCHANGED <<now, gate_vars, io_vars>>

AnalyzeSinglePair == AnalyzeSinglePairOf(DetectPairs)

\* AdvancedArbitrageAnalyzer.analyze_all_opportunities, up to the notifying;
\* the monitor awaits one call before it makes the next
AnalyzeAllOpportunitiesOf(pairs) ==
    \E pord \in Perms(pairs), eord \in Perms(Venues), uord \in Perms(Venues) :
        /\ engine.program = "advanced"
        /\ pending = <<>>
        /\ AnalyzeAllOpportunitiesCall(pord, eord, uord)
        /\ UNCHANGED <<now, gate_vars, io_vars>>

AnalyzeAllOpportunities == AnalyzeAllOpportunitiesOf(DetectPairs)

\* the next round of _notify_opportunities, the webhook answering one of
\* responses
NotifyOpportunityOf(responses) ==
    \E resp \in responses :
        /\ pending # <<>>
        /\ NotifyOpportunityCall(resp)
        /\ UNCHANGED <<now, io_vars>>

\* the webhook is up
NotifyOpportunity == NotifyOpportunityOf({HttpNoContent})

InitDetect ==
    /\ GateInit({DefaultPolicy}, {TRUE})
    /\ DetectInit(DetectEngines)
    /\ IoInit
NextDetect ==
    \/ DetectTick
    \/ CollectPriceData
    \/ AnalyzeSinglePair
    \/ AnalyzeAllOpportunities
    \/ NotifyOpportunity
SpecDetect == InitDetect /\ [][NextDetect]_vars

----------------------------------------------------------------------------
(* The advanced analyzer and its gate, two pairs quoted on both venues *)

CyclePairs == {"BTC/USDT", "ETH/USDT"}

\* bybit 9,990,000/10,000,000; binance 10,070,000/10,080,000
CycleQuotes ==
    [bybit |-> {Quote(999, 1000)},
     binance |-> {Quote(1007, 1008)}]

\* the clock passes 0:00 and 5:00
CycleTick ==
    /\ now + Minutes(5) <= MaxDetectNow
    /\ now' = now + Minutes(5)
    /\ UNCHANGED <<gate_vars, detect_vars, io_vars>>

CollectCyclePriceData == CollectPriceDataOf(CyclePairs, CycleQuotes, MaxCycleTicks)

AnalyzeCycleOpportunities == AnalyzeAllOpportunitiesOf(CyclePairs)

\* the webhook answers 204 or fails
NotifyResponses == {HttpNoContent, 500}

NotifyCycleOpportunity == NotifyOpportunityOf(NotifyResponses)

InitCycle ==
    /\ GateInit({DefaultPolicy}, {TRUE})
    /\ DetectInit({DefaultEngine("advanced")})
    /\ IoInit
NextCycle ==
    \/ CycleTick
    \/ CollectCyclePriceData
    \/ AnalyzeCycleOpportunities
    \/ NotifyCycleOpportunity
SpecCycle == InitCycle /\ [][NextCycle]_vars

----------------------------------------------------------------------------
(* Both analyzers over quotes with an empty side or no size *)

\* a ticker without sizes, as BitbankClient.get_ticker builds it
QuoteNoSize(bid, ask) == [bid |-> bid, ask |-> ask, bid_size |-> 0, ask_size |-> 0]

\* bybit 9,990,000/10,000,000 with a size or without; binance
\* 10,070,000/10,080,000, or 0/0 for a ticker without bidPrice and askPrice
ZeroQuotes ==
    [bybit |-> {Quote(999, 1000), QuoteNoSize(999, 1000)},
     binance |-> {Quote(1007, 1008), Quote(0, 0)}]

CollectZeroPriceData == CollectPriceDataOf(CyclePairs, ZeroQuotes, MaxCycleTicks)

AnalyzeZeroSinglePair == AnalyzeSinglePairOf(CyclePairs)

AnalyzeZeroOpportunities == AnalyzeAllOpportunitiesOf(CyclePairs)

NotifyZeroOpportunity == NotifyOpportunityOf({HttpNoContent})

InitZero ==
    /\ GateInit({DefaultPolicy}, {TRUE})
    /\ DetectInit({DefaultEngine("detector"), DefaultEngine("advanced")})
    /\ IoInit
NextZero ==
    \/ CollectZeroPriceData
    \/ AnalyzeZeroSinglePair
    \/ AnalyzeZeroOpportunities
    \/ NotifyZeroOpportunity
SpecZero == InitZero /\ [][NextZero]_vars

----------------------------------------------------------------------------
(* The FX rate service under two clients, as scripts/test_binance_          *)
(* integration.py drives them: one coroutine enters and leaves the clients *)
(* and awaits the tasks a client gathers                                   *)

FxClients == {"bybit", "binance"}

\* what a rate source may answer, yen for a dollar; 0 is None
Rates == {150, 152}

\* the clock passes 0:00, 3:00 and 6:00
FxTick ==
    /\ now + Minutes(3) <= MaxFxNow
    /\ now' = now + Minutes(3)
    /\ UNCHANGED <<gate_vars, detect_vars, io_vars>>

AdapterEnter ==
    \E a \in DOMAIN adapters :
        /\ Len(sessions) + 2 <= MaxSessions
        /\ AdapterEnterCall(a)
        /\ UNCHANGED <<now, gate_vars, detect_vars, col_vars, op_results,
                       policy_vars>>

FetchRate ==
    \E p \in DOMAIN pc, rate \in Rates \cup {0} :
        /\ FetchRateCall(p, rate)
        /\ UNCHANGED <<now, gate_vars, detect_vars, col_vars, op_results,
                       policy_vars>>

FetchExchangeInfo ==
    \E a \in DOMAIN adapters :
        /\ FetchExchangeInfoCall(a)
        /\ UNCHANGED <<now, gate_vars, detect_vars, col_vars, op_results,
                       policy_vars>>

GetRate ==
    \E p \in DOMAIN pc :
        /\ p[2] # 0
        /\ GetRateCall(p[1], p[2])
        /\ UNCHANGED <<now, gate_vars, detect_vars, col_vars, op_results,
                       policy_vars>>

AdapterExit ==
    \E a \in DOMAIN adapters :
        /\ AdapterExitCall(a)
        /\ UNCHANGED <<now, gate_vars, detect_vars, col_vars, op_results, policy_vars>>

InitFx ==
    /\ GateInit({DefaultPolicy}, {TRUE})
    /\ DetectInit({DefaultEngine("detector")})
    /\ FxInit(FxClients, MaxTasks)
    /\ CollectorInit({<<>>})
    /\ op_results = <<>>
    /\ PolicyInit
NextFx ==
    \/ FxTick
    \/ AdapterEnter
    \/ FetchRate
    \/ FetchExchangeInfo
    \/ GetRate
    \/ AdapterExit
SpecFx == InitFx /\ [][NextFx]_vars

----------------------------------------------------------------------------
(* The collector daemon: main.py collect *)

ExchangeConfig(enabled, supported_pairs) ==
    [enabled |-> enabled, supported_pairs |-> supported_pairs]

\* two exchanges.yaml: the domestic venues bitflyer and bitbank enabled, and
\* bitflyer with bybit
CollectConfigs ==
    { [bitflyer |-> ExchangeConfig(TRUE, {"BTC_JPY"}),
       bitbank |-> ExchangeConfig(TRUE, {"btc_jpy"}),
       coincheck |-> ExchangeConfig(FALSE, {"btc_jpy"}),
       gmo |-> ExchangeConfig(FALSE, {"BTC_JPY"}),
       bybit |-> ExchangeConfig(FALSE, {"BTCUSDT"}),
       binance |-> ExchangeConfig(FALSE, {"BTCUSDT"})],
      [bitflyer |-> ExchangeConfig(TRUE, {"BTC_JPY"}),
       bitbank |-> ExchangeConfig(FALSE, {"btc_jpy"}),
       coincheck |-> ExchangeConfig(FALSE, {"btc_jpy"}),
       gmo |-> ExchangeConfig(FALSE, {"BTC_JPY"}),
       bybit |-> ExchangeConfig(TRUE, {"BTCUSDT"}),
       binance |-> ExchangeConfig(FALSE, {"BTCUSDT"})] }

\* the ticker a venue answers: 9,990,000/10,000,000
CollectQuotes == {Quote(999, 1000)}

CollectTick ==
    /\ now + 1 <= MaxCollectNow
    /\ now' = now + 1
    /\ UNCHANGED <<gate_vars, detect_vars, io_vars>>

Initialize ==
    \E db_ok \in BOOLEAN :
        /\ InitializeCall(db_ok)
        /\ UNCHANGED <<now, gate_vars, arbitrage_opportunities, engine,
                       notified_opportunities, pending, cycle, op_results,
                       policy_vars>>

Start ==
    /\ StartCall
    /\ UNCHANGED <<now, gate_vars, arbitrage_opportunities, engine,
                   notified_opportunities, pending, cycle, op_results,
                   policy_vars>>

Fire ==
    \E job_id \in JobIds :
        /\ scheduler.fired < MaxFires
        /\ FireCall(job_id)
        /\ UNCHANGED <<now, gate_vars, arbitrage_opportunities, engine,
                       notified_opportunities, pending, cycle, op_results,
                       policy_vars>>

CallDone ==
    \E job_id \in JobIds :
      \E i \in 1..Len(scheduler.runs[job_id]) :
        \E c \in DOMAIN scheduler.runs[job_id][i].calls :
          \E outcome \in CallOutcomes, q \in CollectQuotes :
            /\ CallDoneCall(job_id, i, c, outcome, q)
            /\ UNCHANGED <<now, gate_vars, arbitrage_opportunities, engine,
                           notified_opportunities, pending, cycle, op_results,
                           policy_vars>>

EndJob ==
    \E job_id \in JobIds :
      \E i \in 1..Len(scheduler.runs[job_id]) :
        /\ EndJobCall(job_id, i)
        /\ UNCHANGED <<now, gate_vars, arbitrage_opportunities, engine,
                       notified_opportunities, pending, cycle, op_results, policy_vars>>

InitCollect ==
    /\ GateInit({DefaultPolicy}, {TRUE})
    /\ DetectInit({DefaultEngine("detector")})
    /\ FxInit({}, 0)
    /\ CollectorInit(CollectConfigs)
    /\ op_results = <<>>
    /\ PolicyInit
NextCollect ==
    \/ CollectTick
    \/ Initialize
    \/ Start
    \/ Fire
    \/ CallDone
    \/ EndJob
SpecCollect == InitCollect /\ [][NextCollect]_vars

----------------------------------------------------------------------------
(* Callers of the trading operations *)

CallOperation ==
    \E exchange_code \in {ExchangeOrder[i] : i \in DOMAIN ExchangeOrder},
       operation \in Operations,
       has_credentials \in BOOLEAN, with_symbol \in BOOLEAN, response_ok \in BOOLEAN :
        /\ Cardinality(DOMAIN op_results \cup {<<exchange_code, operation>>}) <= MaxOperations
        /\ CallOperationCall(exchange_code, operation, has_credentials,
                             with_symbol, response_ok)
        /\ UNCHANGED <<now, gate_vars, detect_vars, fx_vars, col_vars,
                       policy_vars>>

InitOperations ==
    /\ GateInit({DefaultPolicy}, {TRUE})
    /\ DetectInit({DefaultEngine("detector")})
    /\ IoInit
NextOperations == CallOperation
SpecOperations == InitOperations /\ [][NextOperations]_vars

----------------------------------------------------------------------------
(* The gate of a running process while the operator edits the policy file *)

\* the options of manage_notifications.py and the values given with them
CliOptions ==
    { <<"disable", 0>>, <<"enable", 0>>,
      <<"threshold", PctBps(20)>>, <<"cooldown", 0>>,
      <<"quiet", <<HHMM(0, 0), HHMM(23, 59)>> >> }

ManageNotifications ==
    \E o \in CliOptions :
        /\ ManageNotificationsCall(o[1], o[2])
        /\ UNCHANGED <<now, gate_vars, detect_vars, fx_vars, col_vars, op_results>>

InitPolicy ==
    /\ GateInit({DefaultPolicy}, {TRUE})
    /\ DetectInit({DefaultEngine("detector")})
    /\ IoInit
NextPolicy == Tick \/ ManageNotifications \/ SendArbitrageAlert
SpecPolicy == InitPolicy /\ [][NextPolicy]_vars

----------------------------------------------------------------------------
(* NotificationConfig queried at any minute of the day *)

ConfigPolicies ==
    { DefaultPolicy,
      Policy(TRUE, TRUE, PctBps(10), 1000, 5, 20, Quiet(TRUE, HHMM(23, 0), HHMM(7, 0))),
      Policy(TRUE, TRUE, PctBps(10), 1000, 5, 20, Quiet(TRUE, HHMM(9, 30), HHMM(17, 0))),
      Policy(TRUE, TRUE, PctBps(10), 1000, 5, 20, Quiet(TRUE, HHMM(12, 0), HHMM(12, 0))),
      Policy(FALSE, TRUE, PctBps(10), 1000, 5, 20, Quiet(FALSE, HHMM(23, 0), HHMM(7, 0))),
      Policy(TRUE, FALSE, PctBps(10), 1000, 5, 20, Quiet(FALSE, HHMM(23, 0), HHMM(7, 0))) }

\* the cases of scripts/test_notification_threshold.py and their neighbours
ProfitPcts == {PctBps(0), PctBps(5), PctBps(9), PctBps(10), PctBps(15)}
ProfitAmounts == {0, 500, 999, 1000, 1500}

\* every minute of a day, at its first and its second half
ClockReadings == 0..(Minutes(MinutesPerDay) - 1)

ShouldSendQuery ==
    \E profit_pct \in ProfitPcts, profit_amount \in ProfitAmounts :
        /\ probe' = [query |-> "should_send_arbitrage_notification",
                     profit_pct |-> profit_pct, profit_amount |-> profit_amount,
                     result |-> ShouldSendArbitrageNotification(
                                    profit_pct, profit_amount, now)]
        /\ UNCHANGED <<now, gate_vars, detect_vars, fx_vars, col_vars, op_results,
                       config_file, last_system, last_clear, last_save>>

IsQuietHoursQuery ==
    /\ probe' = [query |-> "is_quiet_hours", result |-> IsQuietHours(now)]
    /\ UNCHANGED <<now, gate_vars, detect_vars, fx_vars, col_vars, op_results,
                   config_file, last_system, last_clear, last_save>>

InitConfig ==
    /\ now \in ClockReadings
    /\ webhook_url = TRUE
    /\ config \in ConfigPolicies
    /\ last_arbitrage_notification = <<>>
    /\ hourly_notification_count = <<>>
    /\ notification_history = <<>>
    /\ emits = <<>>
    /\ last_call = NoCall
    /\ DetectInit({DefaultEngine("detector")})
    /\ IoInit
NextConfig == ShouldSendQuery \/ IsQuietHoursQuery
SpecConfig == InitConfig /\ [][NextConfig]_vars

----------------------------------------------------------------------------
(* Arbitrage alerts and system alerts through a day with quiet hours *)

WithSystemAlerts(policy, enabled, alert_types) ==
    [policy EXCEPT !.system_alerts =
        [enabled |-> enabled, alert_types |-> alert_types]]

NightQuiet == Quiet(TRUE, HHMM(23, 0), HHMM(7, 0))

SystemPolicies ==
    { Policy(TRUE, TRUE, PctBps(5), 1000, 5, 20, NightQuiet),
      WithSystemAlerts(Policy(TRUE, TRUE, PctBps(5), 1000, 5, 20, NightQuiet),
                       TRUE, SystemAlertTypes),
      WithSystemAlerts(Policy(TRUE, TRUE, PctBps(5), 1000, 5, 20, NightQuiet),
                       FALSE, SystemAlertTypes),
      Policy(TRUE, FALSE, PctBps(5), 1000, 5, 20, NightQuiet),
      Policy(FALSE, TRUE, PctBps(5), 1000, 5, 20, NightQuiet) }

SystemTick ==
    /\ now + Hours(4) <= MaxSystemNow
    /\ now' = now + Hours(4)
    /\ UNCHANGED <<gate_vars, detect_vars, io_vars>>

SystemAlertsRecorded ==
    Cardinality({i \in 1..Len(notification_history) :
                    notification_history[i].type = "system"})

SendSystemAlert ==
    \E alert_type \in SystemAlertTypes, resp \in WebhookResponses :
        /\ SystemAlertDecision(alert_type, now) = "send"
              => SystemAlertsRecorded < MaxSystemAlerts
        /\ SendSystemAlertCall(alert_type, resp)
        /\ UNCHANGED <<now, detect_vars, fx_vars, col_vars, op_results,
                       config_file, last_clear, probe, last_save>>

InitSystem ==
    /\ GateInit(SystemPolicies, BOOLEAN)
    /\ DetectInit({DefaultEngine("detector")})
    /\ IoInit
NextSystem == SystemTick \/ SendArbitrageAlert \/ SendSystemAlert
SpecSystem == InitSystem /\ [][NextSystem]_vars

----------------------------------------------------------------------------
(* The gate with its housekeeping: clear_old_records run at any time *)

ClearPolicies ==
    { DefaultPolicy,
      Policy(TRUE, TRUE, PctBps(5), 1000, 90, 20, Quiet(FALSE, HHMM(23, 0), HHMM(7, 0))) }

ClearOldRecords ==
    /\ ClearOldRecordsCall(now)
    /\ UNCHANGED <<now, detect_vars, fx_vars, col_vars, op_results,
                   config_file, last_system, probe, last_save>>

InitClear ==
    /\ GateInit(ClearPolicies, {TRUE})
    /\ DetectInit({DefaultEngine("detector")})
    /\ IoInit
NextClear == Tick \/ SendArbitrageAlert \/ ClearOldRecords
SpecClear == InitClear /\ [][NextClear]_vars

----------------------------------------------------------------------------
(* The store under a collector that polls faster than a venue's clock moves *)

StoreQuotes == {Quote(999, 1000), Quote(1001, 1002)}

StoreSymbols == {"BTC/JPY", "ETH/JPY"}

StoreTick ==
    /\ now + 1 <= MaxStoreNow
    /\ now' = now + 1
    /\ UNCHANGED <<gate_vars, detect_vars, io_vars>>

\* a poll: the ticker carries the time of the poll or, supplied by the
\* venue, the time of its last update
StoreCollectPriceData ==
    \E exchange_code \in Venues, symbol \in StoreSymbols, q \in StoreQuotes :
      \E timestamp \in {now, now - 1} \cap Nat :
        /\ Cardinality(price_ticks) < MaxStoreTicks
        /\ CollectPriceDataCall(exchange_code, symbol,
                                [timestamp |-> timestamp, bid |-> q.bid,
                                 ask |-> q.ask, bid_size |-> q.bid_size,
                                 ask_size |-> q.ask_size])
        /\ UNCHANGED <<now, gate_vars, arbitrage_opportunities, engine,
                       notified_opportunities, pending, cycle, fx_vars, col_vars,
                       op_results, config_file, last_system, last_clear, probe>>

InitStore ==
    /\ GateInit({DefaultPolicy}, {TRUE})
    /\ DetectInit({DefaultEngine("detector")})
    /\ IoInit
NextStore == StoreTick \/ StoreCollectPriceData
SpecStore == InitStore /\ [][NextStore]_vars

----------------------------------------------------------------------------
(* Claims about the notification gate *)

\* C1: any two successful emits that carry the same route key
\* "{pair}:{buy_venue}->{sell_venue}" are at least cooldown_minutes apart.
C1_CooldownBetweenEmits ==
    \A i, j \in 1..Len(emits) :
        (i < j /\ emits[i].key = emits[j].key)
            => emits[j].time - emits[i].time >= Minutes(GetNotificationCooldown)

\* two emits of one route were made under a positive cooldown
C1_Witness ==
    /\ GetNotificationCooldown > 0
    /\ \E i, j \in 1..Len(emits) : i < j /\ emits[i].key = emits[j].key

\* C2: in every trailing 60-minute window the number of successful emits is
\* at most max_notifications_per_hour, whatever value the policy holds.
C2_HourlyCap ==
    \A j \in 1..Len(emits) :
        Cardinality({i \in 1..j : emits[i].time > emits[j].time - Hours(1)})
            <= GetMaxNotificationsPerHour

\* C3: a failed webhook POST records nothing, and the same opportunity offered
\* right after it is not held back by the cooldown (nor by the hourly cap):
\* if the policy still admits it, it is sent again.
C3_FailedPostNotRecorded ==
    [][(last_call'.seq # last_call.seq /\ last_call'.posted /\ ~last_call'.result) =>
          /\ NoRecords
          /\ ~IsCooldownActive(PairKey(last_call'.data), now')
          /\ GateDecision(last_call'.data, now') \in {"send", "skip_threshold"}]_vars

\* a POST failed for a route that had been notified before
C3_Witness ==
    /\ last_call.posted /\ ~last_call.result
    /\ PairKey(last_call.data) \in DOMAIN last_arbitrage_notification

\* what a caller's dictionary says the opportunity is: pair, buying venue,
\* selling venue
PairOf(opp) == IF "pair" \in DOMAIN opp THEN opp.pair ELSE opp.pair_symbol

RouteOf(opp) == <<PairOf(opp), opp.buy_exchange, opp.sell_exchange>>

\* C4: the cooldown is keyed by pair and ordered venues: an opportunity a
\* detection cycle forwards is dropped as cooldown-active only if an emit of
\* its own pair and route went before; an emit of another pair on the same
\* route, or of the reverse route, never causes the drop.
C4_CooldownKeyedByRoute ==
    last_call.decision = "skip_cooldown"
        => \E i \in 1..Len(emits) : RouteOf(emits[i].data) = RouteOf(last_call.data)

----------------------------------------------------------------------------
(* Claims about the detection cycles *)

Candidates == {cycle.candidates[i] : i \in 1..Len(cycle.candidates)}

CycleDone == cycle.engine # "none" /\ pending = <<>>

\* venue codes and profit of a candidate, whichever analyzer built it
BuyCode(opp) ==
    IF "buy_exchange_code" \in DOMAIN opp THEN opp.buy_exchange_code
    ELSE opp.buy_exchange

SellCode(opp) ==
    IF "sell_exchange_code" \in DOMAIN opp THEN opp.sell_exchange_code
    ELSE opp.sell_exchange

ProfitPct(opp) ==
    IF "profit_percentage" \in DOMAIN opp THEN opp.profit_percentage
    ELSE opp.estimated_profit_pct

Persisted(opp) ==
    \E r \in arbitrage_opportunities :
        /\ r.status = "detected"
        /\ r.timestamp = cycle.at
        /\ r.pair = PairOf(opp)
        /\ r.buy_exchange = BuyCode(opp)
        /\ r.sell_exchange = SellCode(opp)

\* C5: once a detection cycle is through, every candidate it produced is in
\* arbitrage_opportunities with status 'detected' and has been offered to
\* the notification gate, whatever the gate decided.
C5_PersistedAndOffered ==
    CycleDone => \A c \in Candidates : Persisted(c) /\ c \in cycle.offered

\* C6: every opportunity a strategy emits, and every row persisted, buys on
\* one venue and sells on another.
C6_DistinctVenues ==
    /\ \A c \in Candidates : c.buy_exchange # c.sell_exchange
    /\ \A r \in arbitrage_opportunities : r.buy_exchange # r.sell_exchange

\* a cycle emitted a candidate while one venue had two ticks of the pair
\* inside the window
C6_Witness ==
    /\ Candidates # {}
    /\ \E k1, k2 \in cycle.ticks :
          /\ k1 # k2 /\ k1.exchange = k2.exchange /\ k1.pair = k2.pair
          /\ DetectorFresh(k1, k1.pair, cycle.at)
          /\ DetectorFresh(k2, k2.pair, cycle.at)

\* C7: every emitted opportunity sells above its buying price and carries a
\* profit estimate above zero, whatever threshold and fees are configured.
C7_PositiveProfit ==
    \A c \in Candidates : c.sell_price > c.buy_price /\ RatPositive(ProfitPct(c))

\* the rows the analyzer of the last cycle read: per venue the most recent
\* tick of the pair inside its window
CycleFresh(k) ==
    IF cycle.engine = "detector" THEN DetectorFresh(k, k.pair, cycle.at)
    ELSE AdvancedFresh(k, cycle.at)

MostRecentOfVenue(k) ==
    \A o \in cycle.ticks :
        (o.exchange = k.exchange /\ o.pair = k.pair) => o.timestamp <= k.timestamp

FreshLatest == {k \in cycle.ticks : CycleFresh(k) /\ MostRecentOfVenue(k)}

Healthy(k) == k.bid > 0 /\ k.ask >= k.bid

\* the figures of direct arbitrage for buying at the ask of tick a and
\* selling at the bid of tick b, as the analyzer of the last cycle is
\* configured
FeeOf(k) ==
    IF cycle.engine = "detector" THEN engine.taker_fee[k.exchange]
    ELSE ExchangeFee(k.exchange)

TransferFeeOf(k) ==
    IF cycle.engine = "detector" THEN engine.withdrawal_fee[k.exchange] ELSE 0

ThresholdOf ==
    IF cycle.engine = "detector" THEN engine.min_profit_threshold
    ELSE engine.advanced_min_profit_threshold

MaxVolumeOf(a, b) ==
    Min2(Min2(a.ask_size, b.bid_size), MaxPositionSize(BaseCurrency(a.pair)))

PriceDiffPct(a, b) == Rat(100 * (b.bid - a.ask), a.ask)

EstimatedProfitPct(a, b) ==
    LET vol == MaxVolumeOf(a, b)
        fees == FeeOf(a) * a.ask * vol + FeeOf(b) * b.bid * vol + TransferFeeOf(a)
    IN  Rat(BasisPoints * (b.bid - a.ask) * vol - fees, 100 * vol * a.ask)

ShouldEmit(a, b) ==
    /\ RatPositive(EstimatedProfitPct(a, b))
    /\ ~RatLess(PriceDiffPct(a, b), Rat(ThresholdOf, 100))

DirectCandidates(a, b) ==
    {i \in 1..Len(cycle.candidates) :
        LET c == cycle.candidates[i]
        IN  /\ "type" \in DOMAIN c => c.type = "direct"
            /\ PairOf(c) = a.pair
            /\ BuyCode(c) = a.exchange
            /\ SellCode(c) = b.exchange}

\* C8: for two venues with fresh healthy quotes of a pair, the direct
\* strategy emits one candidate buying on a and selling on b if
\* estimated_profit_pct > 0 and price_diff_pct >= min_profit_threshold, and
\* none otherwise.
C8_DirectEmitsIff ==
    (cycle.engine # "none" /\ ~cycle.error) =>
        \A a, b \in FreshLatest :
            (a.exchange # b.exchange /\ a.pair = b.pair /\ Healthy(a) /\ Healthy(b))
                => Cardinality(DirectCandidates(a, b)) =
                       IF ShouldEmit(a, b) THEN 1 ELSE 0

\* C9: a candidate of detect_opportunities takes the direction with the
\* larger sell bid - buy ask: the opposite direction between its two venues,
\* buying where it sells and selling where it buys, would not gain more.
C9_MoreProfitableDirection ==
    cycle.engine = "detector" =>
        \A c \in Candidates :
            \A a, b \in FreshLatest :
                (a.pair = PairOf(c) /\ b.pair = PairOf(c)
                    /\ a.exchange = BuyCode(c) /\ b.exchange = SellCode(c))
                    => c.sell_price - c.buy_price >= a.bid - b.ask

\* the freshness window of the analyzer that ran the last cycle
CycleWindow ==
    IF cycle.engine = "detector" THEN DetectorWindow ELSE AdvancedWindow

WithinW(k) == cycle.at - k.timestamp <= CycleWindow

\* the tick k is the leg this candidate names for the side
IsBuyLeg(k, c) ==
    /\ k.pair = PairOf(c) /\ k.exchange = BuyCode(c) /\ k.ask = c.buy_price
    /\ "buy_timestamp" \in DOMAIN c => c.buy_timestamp = k.timestamp

IsSellLeg(k, c) ==
    /\ k.pair = PairOf(c) /\ k.exchange = SellCode(c) /\ k.bid = c.sell_price
    /\ "sell_timestamp" \in DOMAIN c => c.sell_timestamp = k.timestamp

\* C10: each leg of a candidate is the most recent tick of its venue and is
\* not older than W; a pair that fewer than two venues quote within W gets
\* no candidate.
C10_FreshLatestLegs ==
    cycle.engine # "none" =>
        /\ \A c \in Candidates :
              /\ \E k \in cycle.ticks :
                    IsBuyLeg(k, c) /\ WithinW(k) /\ MostRecentOfVenue(k)
              /\ \E k \in cycle.ticks :
                    IsSellLeg(k, c) /\ WithinW(k) /\ MostRecentOfVenue(k)
        /\ \A p \in {k.pair : k \in cycle.ticks} :
              Cardinality({k.exchange : k \in {x \in cycle.ticks :
                                                  x.pair = p /\ WithinW(x)}}) < 2
                  => \A c \in Candidates : PairOf(c) # p

\* a cycle emitted a candidate although the venue it buys on had an older
\* tick at another price
C10_Witness ==
    /\ \E c \in Candidates : \E k \in cycle.ticks :
          /\ k.pair = PairOf(c) /\ k.exchange = BuyCode(c)
          /\ ~MostRecentOfVenue(k) /\ k.ask # c.buy_price

----------------------------------------------------------------------------
(* Claims about quotes with a zero price or size *)

ZeroLeg(k) == k.bid = 0 \/ k.ask = 0 \/ k.bid_size = 0 \/ k.ask_size = 0

\* the advanced cycle read a pair both venues quote with nothing zero and
\* with a gain above threshold and fees
GoodPairs ==
    {a.pair : a \in {x \in FreshLatest :
                        \E b \in FreshLatest :
                            /\ x.exchange # b.exchange /\ x.pair = b.pair
                            /\ ~ZeroLeg(x) /\ ~ZeroLeg(b)
                            /\ Healthy(x) /\ Healthy(b)
                            /\ ShouldEmit(x, b)}}

\* C11: a venue pair with a zero price or a zero size on a leg is discarded
\* without raising: no cycle ends in an exception, no candidate has a zero
\* leg, and the other currency pairs of an advanced cycle still get their
\* candidates.
C11_ZeroDiscardedWithoutRaising ==
    cycle.engine # "none" =>
        /\ ~cycle.error
        /\ \A c \in Candidates : c.buy_price # 0 /\ c.sell_price # 0
        /\ cycle.engine = "advanced" =>
              \A p \in GoodPairs : \E c \in Candidates : PairOf(c) = p

\* C12: no tick with bid <= 0, ask <= 0 or ask < bid is ever persisted:
\* every stored PriceTick satisfies ask >= bid > 0.
C12_StoredTicksWellFormed ==
    \A k \in price_ticks : k.bid > 0 /\ k.ask > 0 /\ k.ask >= k.bid

----------------------------------------------------------------------------
(* Claims about the FX rate service and the clients' sessions *)

\* C13: get_rate returns the rate of the last refresh that succeeded, also
\* when a later refresh failed on every source; it returns the fallback 155
\* only when no refresh has ever succeeded.
C13_CachedRateSurvivesFailure ==
    last_get_rate.returned =>
        last_get_rate.value =
            IF last_get_rate.cached = <<>> THEN FallbackUsdJpy
            ELSE last_get_rate.cached[1]

InFlight == {p \in DOMAIN pc : pc[p].at = "update_rates"}

\* C14: under any interleaving of concurrent get_rate calls at most one
\* update_rates is in flight.
C14_OneRefreshInFlight == Cardinality(InFlight) <= 1

\* C15: an update_rates is begun only when no refresh has succeeded yet or
\* the cached value is older than update_interval; with a value that is
\* not stale no request goes out.
C15_RefreshOnlyWhenStale ==
    last_refresh.via # "none" =>
        \/ last_refresh.last_update = <<>>
        \/ last_refresh.at - last_refresh.last_update[1] > UpdateInterval

\* C16: while a client is between __aenter__ and __aexit__, its own session
\* and the FX session its __aenter__ started are open and the latter is
\* still the one fx_service holds: no other client closed or replaced them.
C16_SingleOwnerSessions ==
    \A a \in DOMAIN adapters :
        adapters[a].state = "open" =>
            /\ SessionUsable(adapters[a].session)
            /\ UsesFx(a) =>
                  /\ fx.session = adapters[a].fx_session
                  /\ SessionUsable(fx.session)

----------------------------------------------------------------------------
(* Claims about the collector daemon *)

\* C17: never do two instances of the price job, nor two of the orderbook
\* job, run at once: a firing of a job while its previous instance is
\* still running starts nothing and is recorded as suppressed.
C17_NoSelfOverlap ==
    [][ /\ \A j \in JobIds : Len(scheduler'.runs[j]) <= 1
        /\ \A j \in JobIds :
              (/\ scheduler'.fired # scheduler.fired
               /\ last_fire'.job = j
               /\ Len(scheduler.runs[j]) >= 1)
                  => /\ scheduler'.runs = scheduler.runs
                     /\ last_fire'.suppressed ]_vars

\* a job was fired while its instance was running, and was suppressed
C17_Witness ==
    /\ last_fire.suppressed
    /\ Len(scheduler.runs[last_fire.job]) = 1

\* the tickers of a quote cycle: every pair of every enabled venue of the
\* configuration
EnabledCalls ==
    UNION {{<<e, p>> : p \in collector.config[e].supported_pairs} :
              e \in {x \in DOMAIN collector.config : collector.config[x].enabled}}

\* C18: every instance of the price job requests a ticker for every venue
\* the configuration marks enabled and every configured pair of it.
C18_EveryEnabledVenueRequested ==
    /\ \A i \in 1..Len(scheduler.runs["price_collection"]) :
          DOMAIN scheduler.runs["price_collection"][i].calls = EnabledCalls
    /\ last_cycle.job = "price_collection"
          => DOMAIN last_cycle.calls = EnabledCalls

\* C19: when a collection cycle has ended, whatever calls of it failed,
\* every call of it has run, each call that was answered and stored has its
\* row, every session opened for the cycle is closed and the scheduler goes
\* on firing.
C19_FailureContained ==
    last_cycle.job # "none" =>
        /\ \A c \in DOMAIN last_cycle.calls :
              /\ last_cycle.calls[c] # "pending"
              /\ (last_cycle.job = "price_collection" /\ last_cycle.calls[c] = "saved")
                    => \E k \in price_ticks :
                          k.exchange = c[1] /\ k.pair = Symbol(c[2])
              /\ (last_cycle.job = "orderbook_collection" /\ last_cycle.calls[c] = "saved")
                    => \E i \in 1..Len(orderbook_snapshots) :
                          /\ orderbook_snapshots[i].exchange = c[1]
                          /\ orderbook_snapshots[i].pair = c[2]
        /\ \A x \in last_cycle.opened : sessions[x] = "closed"
        /\ collector.running

----------------------------------------------------------------------------
(* Claims about the trading operations *)

\* C20: a call of an operation the client does not implement ends in an
\* error on every client; it never returns an empty result that looks like
\* success.
C20_UnsupportedOperationFails ==
    \A k \in DOMAIN op_results :
        Unimplemented(k[1], k[2]) => op_results[k].kind = "raises"

----------------------------------------------------------------------------
(* Claims about the policy file *)

\* what the policy document file asks of an opportunity at clock reading t:
\* alerts and channel enabled, both thresholds met, and the route not
\* notified within cooldown_minutes
FileAdmits(file, arbitrage_data, t) ==
    LET pair_key == PairKey(arbitrage_data)
    IN  /\ file.arbitrage_alerts.enabled /\ file.discord.enabled
        /\ ~RatLess(arbitrage_data.profit_pct,
                    file.arbitrage_alerts.min_profit_threshold)
        /\ arbitrage_data.profit >= file.arbitrage_alerts.min_profit_amount
        /\ pair_key \in DOMAIN last_arbitrage_notification
              => t - last_arbitrage_notification[pair_key]
                    >= Minutes(file.arbitrage_alerts.cooldown_minutes)

\* C21: a change of the policy file made while the process runs is applied
\* by the very next gate decision: the gate sends an alert only if the
\* policy the file holds at that moment admits it.
C21_PolicyFileApplied ==
    [][(last_call'.seq # last_call.seq /\ last_call'.decision = "send")
          => FileAdmits(config_file, last_call'.data, now)]_vars

\* the minute of the day an "HH:MM" string names
MinuteNamed(hhmm) == (10 * hhmm[1] + hhmm[2]) * 60 + 10 * hhmm[4] + hhmm[5]

\* the minute m lies in the window from start to end, both included; a
\* window whose start is later than its end wraps midnight
InWindow(start, end, m) ==
    IF start <= end THEN start <= m /\ m <= end
    ELSE m >= start \/ m <= end

\* the quiet-hours window of the policy is on and holds the minute of t
QuietAt(t) ==
    /\ config.discord.quiet_hours.enabled
    /\ InWindow(MinuteNamed(config.discord.quiet_hours.start),
                MinuteNamed(config.discord.quiet_hours.end), MinuteOfDay(t))

C23_QuietHoursWindow ==
    probe.query = "is_quiet_hours" => (probe.result <=> QuietAt(now))

\* 02:00 asked about under the window 23:00-07:00, and found quiet
C23_Witness ==
    /\ probe.query = "is_quiet_hours"
    /\ config.discord.quiet_hours.enabled
    /\ config.discord.quiet_hours.start = HHMM(23, 0)
    /\ config.discord.quiet_hours.end = HHMM(7, 0)
    /\ MinuteOfDay(now) = 2 * 60
    /\ probe.result

----------------------------------------------------------------------------
(* Claims about system alerts *)

\* C24: during quiet hours every arbitrage alert and every system alert
\* other than ERROR is dropped without a webhook POST, while an ERROR
\* system alert (system alerts on, ERROR among the alert types, a webhook
\* configured) is still posted.
C24_QuietHoursDrop ==
    [][ /\ (last_call'.seq # last_call.seq /\ QuietAt(now))
              => ~last_call'.posted /\ ~last_call'.result
        /\ (last_system'.seq # last_system.seq /\ QuietAt(now))
              => IF last_system'.alert_type # "ERROR"
                 THEN ~last_system'.posted /\ ~last_system'.result
                 ELSE (/\ config.system_alerts.enabled
                       /\ "ERROR" \in config.system_alerts.alert_types
                       /\ webhook_url)
                          => last_system'.posted ]_vars

\* an ERROR alert posted at 04:00 under the window 23:00-07:00, after an
\* arbitrage alert above both thresholds was dropped
C24_Witness ==
    /\ last_system.alert_type = "ERROR"
    /\ last_system.posted
    /\ QuietAt(last_system.at) /\ now = last_system.at
    /\ last_call.decision = "skip_threshold"
    /\ ~RatLess(last_call.data.profit_pct, GetArbitrageThreshold)
    /\ IsArbitrageNotificationEnabled

\* C25: when system alerts are disabled or the channel (discord.enabled)
\* is disabled, send_system_alert makes no webhook POST, whatever the
\* alert type.
C25_SystemAlertsHonorChannel ==
    last_system.posted
        => config.system_alerts.enabled /\ config.discord.enabled

----------------------------------------------------------------------------
(* Claims about the outcome of a gate call *)

\* C26: a call that reaches the POST succeeds iff a webhook URL is
\* configured and the answer is HTTP 204 (no other status, 2xx or not, and
\* no transport error counts), and exactly then the emit is recorded in the
\* per-route map and appended to the hourly buffer.
C26_SuccessIff204 ==
    [][(last_call'.seq # last_call.seq /\ last_call'.decision = "send") =>
          LET pair_key == PairKey(last_call'.data)
          IN  /\ last_call'.posted <=> webhook_url
              /\ last_call'.result <=>
                    (last_call'.posted /\ last_call'.resp = HttpNoContent)
              /\ IF last_call'.result
                 THEN /\ pair_key \in DOMAIN last_arbitrage_notification'
                      /\ last_arbitrage_notification'[pair_key] = now
                      /\ hourly_notification_count' =
                            Append(hourly_notification_count, now)
                 ELSE UNCHANGED <<last_arbitrage_notification,
                                  hourly_notification_count>>]_vars

\* a POST answered 200 was taken for a failure, after one answered 204 had
\* been recorded
C26_Witness ==
    /\ last_call.posted /\ last_call.resp = 200 /\ ~last_call.result
    /\ Len(emits) = 1
    /\ Len(hourly_notification_count) = 1
    /\ emits[1].key \in DOMAIN last_arbitrage_notification

\* C29: a send_arbitrage_alert call that returns False leaves
\* last_arbitrage_notification, hourly_notification_count and
\* notification_history as they were, and a call dropped at the enabled,
\* quiet-hours, threshold, cooldown or hourly-cap check makes no POST.
C29_FalseLeavesRecords ==
    [][(last_call'.seq # last_call.seq /\ ~last_call'.result) =>
          /\ UNCHANGED <<last_arbitrage_notification, hourly_notification_count,
                         notification_history>>
          /\ last_call'.decision # "send" => ~last_call'.posted]_vars

\* a call was dropped by the cooldown of a route notified before
C29_Witness ==
    /\ last_call.decision = "skip_cooldown"
    /\ ~last_call.result /\ ~last_call.posted
    /\ PairKey(last_call.data) \in DOMAIN last_arbitrage_notification
    /\ Len(hourly_notification_count) >= 1

----------------------------------------------------------------------------
(* Claims about clear_old_records *)

\* C30: clear_old_records removes no per-route record that is still inside
\* its cooldown window and leaves the hourly buffer alone, so that the gate
\* decides every opportunity after it as it would have before it.
C30_ClearKeepsDecisions ==
    [][last_clear'.seq # last_clear.seq =>
          /\ \A pair_key \in last_clear'.removed : ~IsCooldownActive(pair_key, now)
          /\ hourly_notification_count' = hourly_notification_count
          /\ \A arbitrage_data \in GateInputs :
                GateDecision(arbitrage_data, now)' = GateDecision(arbitrage_data, now)]_vars

----------------------------------------------------------------------------
(* Claims about the stored ticks *)

\* C27: ticks are append-only.  Saving a tick whose (exchange, pair,
\* timestamp) equals that of a stored tick fails, the failure stays inside
\* collect_price_data, and the stored row and every other row are as before;
\* any other save adds its row and changes none.
C27_TicksAppendOnly ==
    [][last_save'.seq # last_save.seq =>
          /\ price_ticks \subseteq price_ticks'
          /\ (\E k \in price_ticks : TickKey(k) = last_save'.key)
                => last_save'.error /\ price_ticks' = price_ticks
          /\ \A k1, k2 \in price_ticks' : TickKey(k1) = TickKey(k2) => k1 = k2]_vars

\* a venue-supplied timestamp came again with another price, and the save
\* failed
C27_Witness ==
    /\ last_save.error
    /\ \E k \in price_ticks : TickKey(k) = last_save.key /\ k.timestamp < now
    /\ Cardinality(price_ticks) >= 2

----------------------------------------------------------------------------
(* Claims about the two jobs on the shared clients *)

\* C28: the price job and the orderbook job do not interfere through the
\* sessions of the clients they share: while a call of a running instance
\* is still to be answered, the session its client holds has not been
\* closed by the other job's exit.
C28_JobsKeepTheirSessions ==
    \A job_id \in JobIds :
        \A i \in 1..Len(scheduler.runs[job_id]) :
            LET instance == scheduler.runs[job_id][i]
            IN  \A c \in DOMAIN instance.calls :
                    instance.calls[c] = "pending"
                        => SessionUsable(adapters[c[1]].session)

====
